---- MODULE Spec2Model ----
(***************************************************************************)
(* Model of the 3-D Game of Life compute engine (GameOfLife3D) and of the  *)
(* compute-shader debugger (ComputeShaderDebugger).                        *)
(*                                                                         *)
(* The two classes never call each other in the source, so each gets its   *)
(* own group of variables and its own specifications:                      *)
(*   Spec         every debugger operation, small inputs                   *)
(*   SpecHistory  the dispatch history driven past its capacity of 1000    *)
(*   SpecTrack    the tracking tables with two handles of each kind        *)
(*   SpecDispatch dispatches of two shaders opened and closed              *)
(*   SpecEngine   the engine: init, setCell, reset, update                 *)
(*   SpecGroups   the engine stepped on every axis length up to MaxAxis    *)
(*   SpecPair     two engines fed the same calls beside two debuggers      *)
(*                toggled independently                                    *)
(***************************************************************************)
EXTENDS Integers, Sequences, FiniteSets, TLC

VARIABLES
    \* ---- ComputeShaderDebugger (include/ComputeShaderDebugger.h:97-133)
    m_enabled,                \* bool m_enabled
    m_trackedBuffers,         \* unordered_map<VkBuffer, BufferInfo>
    m_trackedImages,          \* unordered_map<VkImage, ImageInfo>
    m_dispatchHistory,        \* vector<ComputeDispatchInfo>
    m_currentDispatch,        \* ComputeDispatchInfo
    m_inDispatch,             \* bool
    m_timestampQueryPool,     \* VkQueryPool: NullHandle or "pool"
    m_currentTimestampIndex,  \* uint32_t
    m_timestampMarkers,       \* vector<pair<uint32_t, string>>
    m_errors,                 \* vector<string>
    m_warnings,               \* vector<string>
    \* ---- history variables of the debugger (not program state)
    closed,                   \* number of dispatches endDispatch has appended
    lastCall,                 \* the most recent call and what it returned
    \* ---- GameOfLife3D (include/GameOfLife3D.h:49-75)
    engine,                   \* the engine object, one field per member
    steps,                    \* history variable: update() calls completed
    \* ---- a second engine and the flag of a second debugger (SpecPair)
    twin,
    twin_enabled,
    \* ---- UXTestGame (test_cpp_game.cpp:18-69)
    game                      \* the game object, one field per member

dbgState == <<m_enabled, m_trackedBuffers, m_trackedImages, m_dispatchHistory,
              m_currentDispatch, m_inDispatch, m_timestampQueryPool,
              m_currentTimestampIndex, m_timestampMarkers, m_errors, m_warnings>>
dbgVars == <<dbgState, closed, lastCall>>
engineVars == <<engine, steps>>
twinVars == <<twin, twin_enabled>>
vars == <<dbgVars, engineVars, twinVars, game>>

(***************************************************************************)
(* Program constants                                                       *)
(***************************************************************************)
HistoryCapacity == 1000
TimestampCapacity == 1000
VK_ACCESS_SHADER_READ_BIT == 32
VK_ACCESS_SHADER_WRITE_BIT == 64
VK_PIPELINE_STAGE_COMPUTE_SHADER_BIT == 2048

NullHandle == "VK_NULL_HANDLE"

(***************************************************************************)
(* Bounds of the model                                                     *)
(***************************************************************************)
MaxClosed == 1          \* Spec: dispatches closed in one run
MaxMarkers == 1         \* Spec: timestamps requested in one run
MaxMessages == 1        \* Spec: messages the two ledgers grow to, together
MaxLedger == 2          \* SpecLedgers: the same, where the ledgers are the subject
MaxCounted == 3         \* SpecCounts: dispatches closed in one run
MaxFrames == 4          \* SpecPingPong: steps of one initialisation
HistoryOverrun == 3     \* SpecHistory: dispatches closed beyond the capacity

(***************************************************************************)
(* Inputs                                                                  *)
(***************************************************************************)
BufferHandles == {"bufA"}
BufferSizes == {1024, 2048}
ImageHandles == {"imgA"}
Extents == {[width |-> 4, height |-> 4, depth |-> 1]}
Formats == {"R8"}
ResourceNames == {"res"}
ShaderNames == {"game_of_life_3d"}
GroupCounts == {<<1, 1, 1>>}
MarkerNames == {"mark"}
AccessMasks == {0, VK_ACCESS_SHADER_WRITE_BIT}
StageMasks == {0, VK_PIPELINE_STAGE_COMPUTE_SHADER_BIT}
BarrierSizes == {0, 1024}

\* (mask & bit) != 0, for a single-bit `bit`
HasBit(mask, bit) == (mask \div bit) % 2 = 1

\* lastCall: the operation called and what it returned ("void", "true",
\* "false", "throws"), with the argument where a claim is about it
Call(op, ret) == [op |-> op, ret |-> ret]
CallWith(op, ret, arg) == [op |-> op, ret |-> ret, arg |-> arg]
\* ... or with what the call replaced: <<>> or the one entry it overwrote
CallReplacing(op, ret, replaced) == [op |-> op, ret |-> ret, replaced |-> replaced]

(***************************************************************************)
(* ComputeShaderDebugger                                                   *)
(***************************************************************************)
\* A default-constructed ComputeDispatchInfo: empty name and lists.  The
\* group counts are indeterminate until beginDispatch writes them; nothing
\* reads them before that, so one value stands for them here.
\* `overwrote` is a history field: the shader name of the open dispatch that
\* the beginDispatch which wrote these fields replaced, if there was one.
\* `unclosed` is a history field as well: beginDispatch sets it to 1 when it
\* writes the fields and every push_back of endDispatch takes 1 from it, so
\* it never exceeds the number of enabled beginDispatch calls less the number
\* of records ever appended.
NoDispatch ==
    [shaderName |-> "", groupCountX |-> 0, groupCountY |-> 0, groupCountZ |-> 0,
     buffers |-> <<>>, images |-> <<>>, overwrote |-> <<>>,
     unclosed |-> 0]

\* The constructor: enabled, nothing tracked, no dispatch open, index 0;
\* createTimestampQueryPool logs an error when vkCreateQueryPool fails.
DebuggerInit(poolCreated) ==
    /\ m_enabled = TRUE
    /\ m_trackedBuffers = <<>>
    /\ m_trackedImages = <<>>
    /\ m_dispatchHistory = <<>>
    /\ m_currentDispatch = NoDispatch
    /\ m_inDispatch = FALSE
    /\ m_timestampQueryPool = IF poolCreated THEN "pool" ELSE NullHandle
    /\ m_currentTimestampIndex = 0
    /\ m_timestampMarkers = <<>>
    /\ m_errors = IF poolCreated THEN <<>>
                  ELSE <<"Failed to create timestamp query pool">>
    /\ m_warnings = <<>>
    /\ closed = 0
    /\ lastCall = Call("ComputeShaderDebugger", "void")

\* (mutant) setEnabled(false) that abandons the open dispatch
SetEnabled_abandons(enabled) ==
    /\ m_enabled' = enabled
    /\ m_inDispatch' = (enabled /\ m_inDispatch)
    /\ lastCall' = Call("setEnabled", "void")
    /\ UNCHANGED <<engineVars, twinVars, game>>
    /\ UNCHANGED <<m_trackedBuffers, m_trackedImages, m_dispatchHistory,
                   m_currentDispatch, m_timestampQueryPool,
                   m_currentTimestampIndex, m_timestampMarkers, m_errors,
                   m_warnings, closed>>

SetEnabled(enabled) ==
    /\ m_enabled' = enabled
    /\ lastCall' = Call("setEnabled", "void")
    /\ UNCHANGED <<engineVars, twinVars, game>>
    /\ UNCHANGED <<m_trackedBuffers, m_trackedImages, m_dispatchHistory,
                   m_currentDispatch, m_inDispatch, m_timestampQueryPool,
                   m_currentTimestampIndex, m_timestampMarkers, m_errors,
                   m_warnings, closed>>

\* (mutant) clearMessages that forgets the warnings
ClearMessages_errorsOnly ==
    /\ m_errors' = <<>>
    /\ lastCall' = CallWith("clearMessages", "void", Len(m_errors) + Len(m_warnings))
    /\ UNCHANGED <<engineVars, twinVars, game>>
    /\ UNCHANGED <<m_enabled, m_trackedBuffers, m_trackedImages,
                   m_dispatchHistory, m_currentDispatch, m_inDispatch,
                   m_timestampQueryPool, m_currentTimestampIndex,
                   m_timestampMarkers, m_warnings, closed>>

\* lastCall tells how many messages the call discarded
ClearMessages ==
    /\ m_errors' = <<>>
    /\ m_warnings' = <<>>
    /\ lastCall' = CallWith("clearMessages", "void", Len(m_errors) + Len(m_warnings))
    /\ UNCHANGED <<engineVars, twinVars, game>>
    /\ UNCHANGED <<m_enabled, m_trackedBuffers, m_trackedImages,
                   m_dispatchHistory, m_currentDispatch, m_inDispatch,
                   m_timestampQueryPool, m_currentTimestampIndex,
                   m_timestampMarkers, closed>>

\* (mutant) map.insert({key, value}): an entry already there is kept
MapPut_keepsFirst(map, key, value) ==
    [k \in DOMAIN map \cup {key} |-> IF k \in DOMAIN map THEN map[k] ELSE value]

\* map[key] = value of std::unordered_map: insert or overwrite
MapPut(map, key, value) ==
    [k \in DOMAIN map \cup {key} |-> IF k = key THEN value ELSE map[k]]

\* map.erase(key)
MapErase(map, key) == [k \in DOMAIN map \ {key} |-> map[k]]

\* the entry a track call on an enabled debugger overwrites, if any
Replaced(map, key) ==
    IF m_enabled /\ key \in DOMAIN map THEN <<map[key]>> ELSE <<>>

ValidateShaderModule(shaderModule, shaderName) ==
    /\ IF ~m_enabled
         THEN /\ lastCall' = CallWith("validateShaderModule", "true", shaderModule)
              /\ UNCHANGED m_errors
         ELSE IF shaderModule = NullHandle
           THEN /\ m_errors' = Append(m_errors,
                       "Shader module '" \o shaderName \o "' is VK_NULL_HANDLE")
                /\ lastCall' = CallWith("validateShaderModule", "false", shaderModule)
           ELSE /\ lastCall' = CallWith("validateShaderModule", "true", shaderModule)
                /\ UNCHANGED m_errors
    /\ UNCHANGED <<engineVars, twinVars, game>>
    /\ UNCHANGED <<m_enabled, m_trackedBuffers, m_trackedImages,
                   m_dispatchHistory, m_currentDispatch, m_inDispatch,
                   m_timestampQueryPool, m_currentTimestampIndex,
                   m_timestampMarkers, m_warnings, closed>>

ValidateComputePipeline(pipeline, pipelineName) ==
    /\ IF ~m_enabled
         THEN /\ lastCall' = CallWith("validateComputePipeline", "true", pipeline)
              /\ UNCHANGED m_errors
         ELSE IF pipeline = NullHandle
           THEN /\ m_errors' = Append(m_errors,
                       "Compute pipeline '" \o pipelineName \o "' is VK_NULL_HANDLE")
                /\ lastCall' = CallWith("validateComputePipeline", "false", pipeline)
           ELSE /\ lastCall' = CallWith("validateComputePipeline", "true", pipeline)
                /\ UNCHANGED m_errors
    /\ UNCHANGED <<engineVars, twinVars, game>>
    /\ UNCHANGED <<m_enabled, m_trackedBuffers, m_trackedImages,
                   m_dispatchHistory, m_currentDispatch, m_inDispatch,
                   m_timestampQueryPool, m_currentTimestampIndex,
                   m_timestampMarkers, m_warnings, closed>>

\* lastAccessTime (a steady_clock reading) is not modelled: nothing reads it.
\* (mutant) trackBuffer without its `if (!m_enabled) return;`
TrackBuffer_noEnabledCheck(buffer, size, name) ==
    /\ m_trackedBuffers' =
         MapPut(m_trackedBuffers, buffer, [size |-> size, name |-> name])
    /\ lastCall' = CallReplacing("trackBuffer", "void",
                                 Replaced(m_trackedBuffers, buffer))
    /\ UNCHANGED <<engineVars, twinVars, game>>
    /\ UNCHANGED <<m_enabled, m_trackedImages, m_dispatchHistory,
                   m_currentDispatch, m_inDispatch, m_timestampQueryPool,
                   m_currentTimestampIndex, m_timestampMarkers, m_errors,
                   m_warnings, closed>>

\* (mutant) trackBuffer that also lists the buffer in the open dispatch
TrackBuffer_joinsDispatch(buffer, size, name) ==
    /\ m_trackedBuffers' =
         IF ~m_enabled THEN m_trackedBuffers
         ELSE MapPut(m_trackedBuffers, buffer, [size |-> size, name |-> name])
    /\ m_currentDispatch' =
         IF m_enabled /\ m_inDispatch
           THEN [m_currentDispatch EXCEPT !.buffers = Append(@, buffer)]
           ELSE m_currentDispatch
    /\ lastCall' = CallReplacing("trackBuffer", "void",
                                 Replaced(m_trackedBuffers, buffer))
    /\ UNCHANGED <<engineVars, twinVars, game>>
    /\ UNCHANGED <<m_enabled, m_trackedImages, m_dispatchHistory,
                   m_inDispatch, m_timestampQueryPool,
                   m_currentTimestampIndex, m_timestampMarkers, m_errors,
                   m_warnings, closed>>

TrackBuffer(buffer, size, name) ==
    /\ m_trackedBuffers' =
         IF ~m_enabled THEN m_trackedBuffers
         ELSE MapPut(m_trackedBuffers, buffer, [size |-> size, name |-> name])
    /\ lastCall' = CallReplacing("trackBuffer", "void",
                                 Replaced(m_trackedBuffers, buffer))
    /\ UNCHANGED <<engineVars, twinVars, game>>
    /\ UNCHANGED <<m_enabled, m_trackedImages, m_dispatchHistory,
                   m_currentDispatch, m_inDispatch, m_timestampQueryPool,
                   m_currentTimestampIndex, m_timestampMarkers, m_errors,
                   m_warnings, closed>>

TrackImage(image, extent, format, name) ==
    /\ m_trackedImages' =
         IF ~m_enabled THEN m_trackedImages
         ELSE MapPut(m_trackedImages, image,
                     [extent |-> extent, format |-> format, name |-> name])
    /\ lastCall' = CallReplacing("trackImage", "void",
                                 Replaced(m_trackedImages, image))
    /\ UNCHANGED <<engineVars, twinVars, game>>
    /\ UNCHANGED <<m_enabled, m_trackedBuffers, m_dispatchHistory,
                   m_currentDispatch, m_inDispatch, m_timestampQueryPool,
                   m_currentTimestampIndex, m_timestampMarkers, m_errors,
                   m_warnings, closed>>

UntrackBuffer(buffer) ==
    /\ m_trackedBuffers' = MapErase(m_trackedBuffers, buffer)
    /\ lastCall' = Call("untrackBuffer", "void")
    /\ UNCHANGED <<engineVars, twinVars, game>>
    /\ UNCHANGED <<m_enabled, m_trackedImages, m_dispatchHistory,
                   m_currentDispatch, m_inDispatch, m_timestampQueryPool,
                   m_currentTimestampIndex, m_timestampMarkers, m_errors,
                   m_warnings, closed>>

UntrackImage(image) ==
    /\ m_trackedImages' = MapErase(m_trackedImages, image)
    /\ lastCall' = Call("untrackImage", "void")
    /\ UNCHANGED <<engineVars, twinVars, game>>
    /\ UNCHANGED <<m_enabled, m_trackedBuffers, m_dispatchHistory,
                   m_currentDispatch, m_inDispatch, m_timestampQueryPool,
                   m_currentTimestampIndex, m_timestampMarkers, m_errors,
                   m_warnings, closed>>

\* the name of the open dispatch a beginDispatch replaces, if one is open
Overwritten == IF m_inDispatch THEN <<m_currentDispatch.shaderName>> ELSE <<>>

\* (mutant) beginDispatch that leaves an open dispatch as it is
BeginDispatch_keepsOpen(shaderName, groupCountX, groupCountY, groupCountZ) ==
    /\ IF ~m_enabled \/ m_inDispatch
         THEN UNCHANGED <<m_currentDispatch, m_inDispatch>>
         ELSE /\ m_currentDispatch' =
                   [shaderName |-> shaderName, groupCountX |-> groupCountX,
                    groupCountY |-> groupCountY, groupCountZ |-> groupCountZ,
                    buffers |-> <<>>, images |-> <<>>, overwrote |-> Overwritten,
                    unclosed |-> 1]
              /\ m_inDispatch' = TRUE
    /\ lastCall' = Call("beginDispatch", "void")
    /\ UNCHANGED <<engineVars, twinVars, game>>
    /\ UNCHANGED <<m_enabled, m_trackedBuffers, m_trackedImages,
                   m_dispatchHistory, m_timestampQueryPool,
                   m_currentTimestampIndex, m_timestampMarkers, m_errors,
                   m_warnings, closed>>

BeginDispatch(shaderName, groupCountX, groupCountY, groupCountZ) ==
    /\ IF ~m_enabled
         THEN UNCHANGED <<m_currentDispatch, m_inDispatch>>
         ELSE /\ m_currentDispatch' =
                   [shaderName |-> shaderName, groupCountX |-> groupCountX,
                    groupCountY |-> groupCountY, groupCountZ |-> groupCountZ,
                    buffers |-> <<>>, images |-> <<>>, overwrote |-> Overwritten,
                    unclosed |-> 1]
              /\ m_inDispatch' = TRUE
    /\ lastCall' = Call("beginDispatch", "void")
    /\ UNCHANGED <<engineVars, twinVars, game>>
    /\ UNCHANGED <<m_enabled, m_trackedBuffers, m_trackedImages,
                   m_dispatchHistory, m_timestampQueryPool,
                   m_currentTimestampIndex, m_timestampMarkers, m_errors,
                   m_warnings, closed>>

\* The record push_back stores: m_currentDispatch, tagged with its ordinal
\* among the dispatches closed so far (a history field: it stands for the
\* record's identity and its endTime order, which the claims compare).
ClosedRecord ==
    [shaderName |-> m_currentDispatch.shaderName,
     groupCountX |-> m_currentDispatch.groupCountX,
     groupCountY |-> m_currentDispatch.groupCountY,
     groupCountZ |-> m_currentDispatch.groupCountZ,
     buffers |-> m_currentDispatch.buffers,
     images |-> m_currentDispatch.images,
     seq |-> closed + 1]

\* (mutant) the size test off by one: trims only above 1001
TrimHistory_late(history) ==
    IF Len(history) > HistoryCapacity + 1 THEN Tail(history) ELSE history

\* (mutant) erases the newest record instead of the oldest
TrimHistory_dropNewest(history) ==
    IF Len(history) > HistoryCapacity
      THEN SubSeq(history, 1, Len(history) - 1)
      ELSE history

\* m_dispatchHistory.erase(m_dispatchHistory.begin()) once the size exceeds 1000
TrimHistory(history) ==
    IF Len(history) > HistoryCapacity THEN Tail(history) ELSE history

\* endDispatch gets past its early return
EndDispatchAppends == m_enabled /\ m_inDispatch

\* (mutant) endDispatch that tests m_enabled only
EndDispatch_noOpenCheck ==
    /\ IF ~m_enabled
         THEN UNCHANGED <<m_dispatchHistory, m_currentDispatch, m_inDispatch,
                          closed>>
         ELSE /\ m_dispatchHistory' =
                   TrimHistory(Append(m_dispatchHistory, ClosedRecord))
              /\ m_currentDispatch' =
                   [m_currentDispatch EXCEPT !.unclosed = @ - 1]
              /\ m_inDispatch' = FALSE
              /\ closed' = closed + 1
    /\ lastCall' = Call("endDispatch", "void")
    /\ UNCHANGED <<engineVars, twinVars, game>>
    /\ UNCHANGED <<m_enabled, m_trackedBuffers, m_trackedImages,
                   m_timestampQueryPool, m_currentTimestampIndex,
                   m_timestampMarkers, m_errors, m_warnings>>

EndDispatch ==
    /\ IF ~m_enabled \/ ~m_inDispatch
         THEN UNCHANGED <<m_dispatchHistory, m_currentDispatch, m_inDispatch,
                          closed>>
         ELSE /\ m_dispatchHistory' =
                   TrimHistory(Append(m_dispatchHistory, ClosedRecord))
              /\ m_currentDispatch' =
                   [m_currentDispatch EXCEPT !.unclosed = @ - 1]
              /\ m_inDispatch' = FALSE
              /\ closed' = closed + 1
    /\ lastCall' = Call("endDispatch", "void")
    /\ UNCHANGED <<engineVars, twinVars, game>>
    /\ UNCHANGED <<m_enabled, m_trackedBuffers, m_trackedImages,
                   m_timestampQueryPool, m_currentTimestampIndex,
                   m_timestampMarkers, m_errors, m_warnings>>

\* insertTimestamp gets past its early return
InsertTimestampWrites == m_enabled /\ m_currentTimestampIndex < TimestampCapacity

\* (mutant) insertTimestamp without the capacity half of its test
InsertTimestamp_noCapacityTest(markerName) ==
    /\ IF ~m_enabled
         THEN UNCHANGED <<m_timestampMarkers, m_currentTimestampIndex>>
         ELSE /\ m_timestampMarkers' =
                   Append(m_timestampMarkers, <<m_currentTimestampIndex, markerName>>)
              /\ m_currentTimestampIndex' = m_currentTimestampIndex + 1
    /\ lastCall' = CallWith("insertTimestamp", "void",
                            IF m_enabled THEN "written" ELSE "dropped")
    /\ UNCHANGED <<engineVars, twinVars, game>>
    /\ UNCHANGED <<m_enabled, m_trackedBuffers, m_trackedImages,
                   m_dispatchHistory, m_currentDispatch, m_inDispatch,
                   m_timestampQueryPool, m_errors, m_warnings, closed>>

\* lastCall tells whether vkCmdWriteTimestamp was issued ("written") or the
\* call returned at once ("dropped")
InsertTimestamp(markerName) ==
    /\ IF ~m_enabled \/ m_currentTimestampIndex >= TimestampCapacity
         THEN UNCHANGED <<m_timestampMarkers, m_currentTimestampIndex>>
         ELSE /\ m_timestampMarkers' =
                   Append(m_timestampMarkers, <<m_currentTimestampIndex, markerName>>)
              /\ m_currentTimestampIndex' = m_currentTimestampIndex + 1
    /\ lastCall' = CallWith("insertTimestamp", "void",
                            IF InsertTimestampWrites THEN "written" ELSE "dropped")
    /\ UNCHANGED <<engineVars, twinVars, game>>
    /\ UNCHANGED <<m_enabled, m_trackedBuffers, m_trackedImages,
                   m_dispatchHistory, m_currentDispatch, m_inDispatch,
                   m_timestampQueryPool, m_errors, m_warnings, closed>>

\* A barrier is the record of the fields the validators read.
ValidateMemoryBarrier(barrier) ==
    /\ IF ~m_enabled
         THEN UNCHANGED m_warnings
         ELSE IF barrier.srcAccessMask = 0 /\ barrier.dstAccessMask = 0
           THEN m_warnings' = Append(m_warnings,
                  "Memory barrier has both srcAccessMask and dstAccessMask set to 0")
           ELSE UNCHANGED m_warnings
    /\ lastCall' = Call("validateMemoryBarrier", "true")
    /\ UNCHANGED <<engineVars, twinVars, game>>
    /\ UNCHANGED <<m_enabled, m_trackedBuffers, m_trackedImages,
                   m_dispatchHistory, m_currentDispatch, m_inDispatch,
                   m_timestampQueryPool, m_currentTimestampIndex,
                   m_timestampMarkers, m_errors, closed>>

\* (mutant) the size test made before the null test
ValidateBufferMemoryBarrier_sizeFirst(barrier) ==
    /\ IF ~m_enabled
         THEN /\ lastCall' = CallWith("validateBufferMemoryBarrier", "true", barrier.buffer)
              /\ UNCHANGED <<m_errors, m_warnings>>
         ELSE /\ m_warnings' =
                   IF barrier.size = 0
                     THEN Append(m_warnings, "Buffer memory barrier has size of 0")
                     ELSE m_warnings
              /\ IF barrier.buffer = NullHandle
                   THEN /\ m_errors' = Append(m_errors,
                               "Buffer memory barrier has VK_NULL_HANDLE buffer")
                        /\ lastCall' = CallWith("validateBufferMemoryBarrier",
                                                "false", barrier.buffer)
                   ELSE /\ lastCall' = CallWith("validateBufferMemoryBarrier",
                                                "true", barrier.buffer)
                        /\ UNCHANGED m_errors
    /\ UNCHANGED <<engineVars, twinVars, game>>
    /\ UNCHANGED <<m_enabled, m_trackedBuffers, m_trackedImages,
                   m_dispatchHistory, m_currentDispatch, m_inDispatch,
                   m_timestampQueryPool, m_currentTimestampIndex,
                   m_timestampMarkers, closed>>

ValidateBufferMemoryBarrier(barrier) ==
    /\ IF ~m_enabled
         THEN /\ lastCall' = CallWith("validateBufferMemoryBarrier", "true", barrier.buffer)
              /\ UNCHANGED <<m_errors, m_warnings>>
         ELSE IF barrier.buffer = NullHandle
           THEN /\ m_errors' = Append(m_errors,
                       "Buffer memory barrier has VK_NULL_HANDLE buffer")
                /\ lastCall' = CallWith("validateBufferMemoryBarrier", "false", barrier.buffer)
                /\ UNCHANGED m_warnings
           ELSE /\ m_warnings' =
                     IF barrier.size = 0
                       THEN Append(m_warnings, "Buffer memory barrier has size of 0")
                       ELSE m_warnings
                /\ lastCall' = CallWith("validateBufferMemoryBarrier", "true", barrier.buffer)
                /\ UNCHANGED m_errors
    /\ UNCHANGED <<engineVars, twinVars, game>>
    /\ UNCHANGED <<m_enabled, m_trackedBuffers, m_trackedImages,
                   m_dispatchHistory, m_currentDispatch, m_inDispatch,
                   m_timestampQueryPool, m_currentTimestampIndex,
                   m_timestampMarkers, closed>>

ValidateImageMemoryBarrier(barrier) ==
    /\ IF ~m_enabled
         THEN /\ lastCall' = CallWith("validateImageMemoryBarrier", "true", barrier.image)
              /\ UNCHANGED m_errors
         ELSE IF barrier.image = NullHandle
           THEN /\ m_errors' = Append(m_errors,
                       "Image memory barrier has VK_NULL_HANDLE image")
                /\ lastCall' = CallWith("validateImageMemoryBarrier", "false", barrier.image)
           ELSE /\ lastCall' = CallWith("validateImageMemoryBarrier", "true", barrier.image)
                /\ UNCHANGED m_errors
    /\ UNCHANGED <<engineVars, twinVars, game>>
    /\ UNCHANGED <<m_enabled, m_trackedBuffers, m_trackedImages,
                   m_dispatchHistory, m_currentDispatch, m_inDispatch,
                   m_timestampQueryPool, m_currentTimestampIndex,
                   m_timestampMarkers, m_warnings, closed>>

\* (mutant) the warning given when either mask has the shader-write bit
HazardWarnings_eitherWrites(srcAccess, dstAccess) ==
    IF HasBit(srcAccess, VK_ACCESS_SHADER_WRITE_BIT)
         \/ HasBit(dstAccess, VK_ACCESS_SHADER_WRITE_BIT)
      THEN <<"Potential write-after-write hazard detected">>
      ELSE <<>>

\* The messages one checkSynchronizationHazards call appends when enabled
HazardWarnings(srcAccess, dstAccess) ==
    IF HasBit(srcAccess, VK_ACCESS_SHADER_WRITE_BIT)
         /\ HasBit(dstAccess, VK_ACCESS_SHADER_WRITE_BIT)
      THEN <<"Potential write-after-write hazard detected">>
      ELSE <<>>

HazardErrors(srcStage, dstStage) ==
    IF srcStage = 0 \/ dstStage = 0
      THEN <<"Pipeline barrier has invalid stage flags">>
      ELSE <<>>

CheckSynchronizationHazards(srcStage, dstStage, srcAccess, dstAccess) ==
    /\ IF ~m_enabled
         THEN UNCHANGED <<m_errors, m_warnings>>
         ELSE /\ m_warnings' = m_warnings \o HazardWarnings(srcAccess, dstAccess)
              /\ m_errors' = m_errors \o HazardErrors(srcStage, dstStage)
    /\ lastCall' = Call("checkSynchronizationHazards", "void")
    /\ UNCHANGED <<engineVars, twinVars, game>>
    /\ UNCHANGED <<m_enabled, m_trackedBuffers, m_trackedImages,
                   m_dispatchHistory, m_currentDispatch, m_inDispatch,
                   m_timestampQueryPool, m_currentTimestampIndex,
                   m_timestampMarkers, closed>>

\* ---- getStatistics (const: it reads the members and changes none)
RECURSIVE SumOver(_, _)
\* the loop `for (const auto& [handle, info] : map) total += amount`
SumOver(amount, handles) ==
    IF handles = {} THEN 0
    ELSE LET h == CHOOSE x \in handles : TRUE
         IN amount[h] + SumOver(amount, handles \ {h})

\* (mutant) `=` for `+=`: the total is the size of the last entry visited
TotalBufferBytes_assigns ==
    IF DOMAIN m_trackedBuffers = {} THEN 0
    ELSE m_trackedBuffers[CHOOSE h \in DOMAIN m_trackedBuffers : TRUE].size

TotalBufferBytes ==
    SumOver([h \in DOMAIN m_trackedBuffers |-> m_trackedBuffers[h].size],
            DOMAIN m_trackedBuffers)

TotalImagePixels ==
    SumOver([h \in DOMAIN m_trackedImages |->
                m_trackedImages[h].extent.width
                  * m_trackedImages[h].extent.height
                  * m_trackedImages[h].extent.depth],
            DOMAIN m_trackedImages)

\* counts[name]++ of std::unordered_map: a name without an entry gets one
\* that starts at 0
Incremented(counts, name) ==
    MapPut(counts, name, (IF name \in DOMAIN counts THEN counts[name] ELSE 0) + 1)

RECURSIVE CountedUpTo(_)
\* the loop `for (const auto& dispatch : m_dispatchHistory)
\* stats.dispatchCounts[dispatch.shaderName]++` after its first n rounds
CountedUpTo(n) ==
    IF n = 0 THEN <<>>
    ELSE Incremented(CountedUpTo(n - 1), m_dispatchHistory[n].shaderName)

\* (mutant) the counting gated by the enabled flag, as the other operations are
DispatchCounts_whenEnabled ==
    IF m_enabled THEN CountedUpTo(Len(m_dispatchHistory)) ELSE <<>>

DispatchCounts == CountedUpTo(Len(m_dispatchHistory))

getStatistics ==
    [totalDispatches |-> Len(m_dispatchHistory),
     totalBufferBytes |-> TotalBufferBytes,
     totalImagePixels |-> TotalImagePixels,
     dispatchCounts |-> DispatchCounts]

\* reading stats.dispatchCounts[name]: 0 for a name with no entry
DispatchCountOf(stats, name) ==
    IF name \in DOMAIN stats.dispatchCounts THEN stats.dispatchCounts[name] ELSE 0

\* ---- the reporting operations, all const member functions
GetStatistics ==
    /\ lastCall' = CallWith("getStatistics", "stats", getStatistics)
    /\ UNCHANGED <<engineVars, twinVars, game>>
    /\ UNCHANGED <<dbgState, closed>>

\* (mutant) a dump that clears the ledgers it has written out
DumpDebugInfo_clearsMessages(opened) ==
    /\ lastCall' = CallWith("dumpDebugInfo", "void",
                            IF opened THEN "written" ELSE "not opened")
    /\ m_errors' = IF opened THEN <<>> ELSE m_errors
    /\ m_warnings' = IF opened THEN <<>> ELSE m_warnings
    /\ UNCHANGED <<engineVars, twinVars, game>>
    /\ UNCHANGED <<m_enabled, m_trackedBuffers, m_trackedImages,
                   m_dispatchHistory, m_currentDispatch, m_inDispatch,
                   m_timestampQueryPool, m_currentTimestampIndex,
                   m_timestampMarkers, closed>>

\* opened: whether the output file could be opened; if not the function
\* returns before writing anything
DumpDebugInfo(opened) ==
    /\ lastCall' = CallWith("dumpDebugInfo", "void",
                            IF opened THEN "written" ELSE "not opened")
    /\ UNCHANGED <<engineVars, twinVars, game>>
    /\ UNCHANGED <<dbgState, closed>>

PrintResourceUsage ==
    /\ lastCall' = Call("printResourceUsage", "void")
    /\ UNCHANGED <<engineVars, twinVars, game>>
    /\ UNCHANGED <<dbgState, closed>>

PrintDispatchHistory ==
    /\ lastCall' = Call("printDispatchHistory", "void")
    /\ UNCHANGED <<engineVars, twinVars, game>>
    /\ UNCHANGED <<dbgState, closed>>

(***************************************************************************)
(* GameOfLife3D                                                            *)
(*                                                                         *)
(* The engine object is a record, one field per member, so that the same   *)
(* operators drive `engine` and `twin`.  Members the constructor leaves    *)
(* uninitialised hold Indeterminate until init writes them; the callers    *)
(* modelled here call setCell, reset and update only after an init that    *)
(* returned, as main does, so no indeterminate member is ever read.        *)
(***************************************************************************)
Indeterminate == "indeterminate"
Unobserved == <<>>

\* The history of one update(): the calls made, in order, each with its
\* result and the value of currentBuffer when it was made; what was bound,
\* pushed and dispatched; and what the device did with the step.
NoStep ==
    [events |-> <<>>, set |-> Indeterminate, readBuffer |-> Indeterminate,
     writeBuffer |-> Indeterminate, pushConstants |-> <<>>, groups |-> <<>>,
     device |-> "none"]

\* GameOfLife3D::GameOfLife3D: only currentBuffer is initialised; the vector
\* gridState is default-constructed (empty).
EngineConstructed ==
    [gridSizeX |-> Indeterminate, gridSizeY |-> Indeterminate,
     gridSizeZ |-> Indeterminate,
     gridState |-> <<>>,
     currentBuffer |-> 0,
     computeShader |-> Indeterminate,
     descriptorSetLayout |-> Indeterminate,
     pipelineLayout |-> Indeterminate,
     computePipeline |-> Indeterminate,
     gridBuffers |-> <<Indeterminate, Indeterminate>>,
     descriptorPool |-> Indeterminate,
     descriptorSets |-> <<Indeterminate, Indeterminate>>,
     \* history fields: did the last init return, which creation steps
     \* have succeeded so far (their handles hold a value from then on), what
     \* the last update recorded and submitted, and has the process died in
     \* an update
     initialised |-> FALSE,
     created |-> {},
     \* the cells held by gridBuffers[0] and gridBuffers[1] on the device;
     \* followed in SpecDevice only, Unobserved elsewhere
     deviceMemory |-> Unobserved,
     lastStep |-> NoStep,
     terminated |-> FALSE,
     \* history field: setCell wrote past the end of gridState (undefined
     \* behaviour; no run of the specifications below gets there)
     outOfRangeWrite |-> FALSE]

\* The creation steps of init, in the order the code runs them; init throws
\* at the first one that fails.
InitSteps == <<"shaderFile", "computeShader", "descriptorSetLayout",
               "pipelineLayout", "computePipeline", "gridBuffer0",
               "gridBuffer1", "descriptorPool", "descriptorSet0",
               "descriptorSet1">>

StepIndex(name) == CHOOSE i \in 1..Len(InitSteps) : InitSteps[i] = name

\* failAt is "none" or the step that fails; a step runs iff it comes before it
Reached(name, failAt) ==
    failAt = "none" \/ StepIndex(name) < StepIndex(failAt)

\* ---- uint32_t arithmetic.  A uint32_t is held as an integer in two's
\* complement: the values from 2^31 up are held as value - 2^32, so that
\* 4294967295 is -1.  Hi16 and Lo16 are the two 16-bit halves of the value.
Hi16(v) == (v \div 65536) % 65536
Lo16(v) == v % 65536
U32(hi, lo) ==
    IF hi < 32768 THEN hi * 65536 + lo ELSE (hi - 65536) * 65536 + lo

\* a < b of two uint32_t
Below(a, b) == IF (a >= 0) = (b >= 0) THEN a < b ELSE b < 0

\* the 32-bit product of two 16-bit halves, as <<high half, low half>>
Mul16(a, b) ==
    LET t == (a \div 256) * b
        low == (t % 256) * 256 + (a % 256) * b
    IN <<t \div 256 + low \div 65536, low % 65536>>

\* a * b of two uint32_t: the product modulo 2^32
MulU32(a, b) ==
    IF 0 <= a /\ a < 32768 /\ 0 <= b /\ b < 32768 THEN a * b
    ELSE LET low == Mul16(Lo16(a), Lo16(b))
         IN U32((low[1] + Mul16(Hi16(a), Lo16(b))[2]
                        + Mul16(Lo16(a), Hi16(b))[2]) % 65536,
                low[2])

\* a + b of two uint32_t: the sum modulo 2^32
AddU32(a, b) ==
    IF 0 <= a /\ a < 1073741824 /\ 0 <= b /\ b < 1073741824 THEN a + b
    ELSE LET low == Lo16(a) + Lo16(b)
         IN U32((Hi16(a) + Hi16(b) + low \div 65536) % 65536, low % 65536)

\* a / 8 of a uint32_t
Div8U32(a) == Hi16(a) * 8192 + Lo16(a) \div 8

\* size_t totalCells = gridSizeX * gridSizeY * gridSizeZ: the operands are
\* uint32_t, so the product is taken modulo 2^32 and then widened
TotalCells(sizeX, sizeY, sizeZ) == MulU32(MulU32(sizeX, sizeY), sizeZ)

\* std::vector::resize(count, value): keeps the first count elements and
\* appends copies of value when the vector grows
Resize(vec, count, value) ==
    IF count <= Len(vec) THEN SubSeq(vec, 1, count)
    ELSE vec \o [i \in 1..(count - Len(vec)) |-> value]

\* (mutant) both bindings of set i on gridBuffers[i]
DescriptorSetFor_sameBuffer(i, buffers) ==
    [binding0 |-> buffers[i + 1], binding1 |-> buffers[i + 1]]

\* vkUpdateDescriptorSets for set i: binding 0 = gridBuffers[i],
\* binding 1 = gridBuffers[1 - i]  (sequences are 1-based here)
DescriptorSetFor(i, buffers) ==
    [binding0 |-> buffers[i + 1], binding1 |-> buffers[(1 - i) + 1]]

Created(old, handle, name, failAt) ==
    IF Reached(name, failAt) THEN handle ELSE old

\* GameOfLife3D::init with createComputePipeline, createBuffers and
\* createDescriptorSets inlined
init(e, gridSizeX, gridSizeY, gridSizeZ, failAt) ==
    LET buffers ==
          <<Created(e.gridBuffers[1], "gridBuffer0", "gridBuffer0", failAt),
            Created(e.gridBuffers[2], "gridBuffer1", "gridBuffer1", failAt)>>
    IN [e EXCEPT
          !.gridSizeX = gridSizeX,
          !.gridSizeY = gridSizeY,
          !.gridSizeZ = gridSizeZ,
          !.gridState =
              Resize(e.gridState, TotalCells(gridSizeX, gridSizeY, gridSizeZ), 0),
          !.computeShader =
              Created(e.computeShader, "computeShader", "computeShader", failAt),
          !.descriptorSetLayout =
              Created(e.descriptorSetLayout, "descriptorSetLayout",
                      "descriptorSetLayout", failAt),
          !.pipelineLayout =
              Created(e.pipelineLayout, "pipelineLayout", "pipelineLayout", failAt),
          !.computePipeline =
              Created(e.computePipeline, "computePipeline", "computePipeline", failAt),
          !.gridBuffers = buffers,
          !.descriptorPool =
              Created(e.descriptorPool, "descriptorPool", "descriptorPool", failAt),
          !.descriptorSets =
              <<Created(e.descriptorSets[1], DescriptorSetFor(0, buffers),
                        "descriptorSet0", failAt),
                Created(e.descriptorSets[2], DescriptorSetFor(1, buffers),
                        "descriptorSet1", failAt)>>,
          !.initialised = (failAt = "none"),
          !.created = e.created \cup
              {InitSteps[i] : i \in {j \in 1..Len(InitSteps) :
                                       Reached(InitSteps[j], failAt)}}]

\* (mutant) the z stride without its gridSizeY factor
CellIndex_noRowStride(e, x, y, z) == x + y * e.gridSizeX + z * e.gridSizeX

\* size_t index = x + y * gridSizeX + z * gridSizeX * gridSizeY, computed
\* in uint32_t and then widened
CellIndex(e, x, y, z) ==
    AddU32(AddU32(x, MulU32(y, e.gridSizeX)),
           MulU32(MulU32(z, e.gridSizeX), e.gridSizeY))

\* (mutant) the bounds test with > for >=
OutOfBounds_strict(e, x, y, z) ==
    x > e.gridSizeX \/ y > e.gridSizeY \/ z > e.gridSizeZ

\* the early return of setCell
OutOfBounds(e, x, y, z) ==
    ~Below(x, e.gridSizeX) \/ ~Below(y, e.gridSizeY) \/ ~Below(z, e.gridSizeZ)

\* (mutant) a setCell that also copies the host grid to the current buffer
setCell_uploads(e, x, y, z, state) ==
    IF OutOfBounds(e, x, y, z) THEN e
    ELSE IF Below(CellIndex(e, x, y, z), Len(e.gridState))
      THEN LET written == [e.gridState EXCEPT ![CellIndex(e, x, y, z) + 1] = state]
           IN [e EXCEPT !.gridState = written,
                        !.deviceMemory[e.currentBuffer + 1] = written]
      ELSE [e EXCEPT !.outOfRangeWrite = TRUE]

\* GameOfLife3D::setCell; gridState[index] is element index + 1 here
setCell(e, x, y, z, state) ==
    IF OutOfBounds(e, x, y, z) THEN e
    ELSE IF Below(CellIndex(e, x, y, z), Len(e.gridState))
      THEN [e EXCEPT !.gridState[CellIndex(e, x, y, z) + 1] = state]
      ELSE [e EXCEPT !.outOfRangeWrite = TRUE]

\* (mutant) a reset that also rewinds the current index
reset_rewinds(e) ==
    [e EXCEPT !.gridState = [i \in 1..Len(e.gridState) |-> 0], !.currentBuffer = 0]

\* GameOfLife3D::reset: std::fill(gridState.begin(), gridState.end(), 0)
reset(e) == [e EXCEPT !.gridState = [i \in 1..Len(e.gridState) |-> 0]]

\* GameOfLife3D::getGridState
getGridState(e) == e.gridState

\* (mutant) the division without the round-up
GroupCount_floor(size) == size \div 8

\* (size + 7) / 8 in uint32_t
GroupCount(size) == Div8U32(AddU32(size, 7))

\* (mutant) no flip at all
swapBuffers_keeps(currentBuffer) == currentBuffer

\* (mutant) an increment in place of the flip
swapBuffers_noWrap(currentBuffer) == currentBuffer + 1

\* GameOfLife3D::swapBuffers
swapBuffers(currentBuffer) == 1 - currentBuffer

\* What the device does with one step: "ok", or the first call that fails.
\* The code tests none of the results of vkAllocateCommandBuffers,
\* vkQueueSubmit and vkQueueWaitIdle.  After a failed allocation the command
\* buffer handle is uninitialised and every later use of it is undefined
\* behaviour: the step either goes on as if the handle were good
\* ("allocate") or the process dies at the first use ("allocateCrash").
DeviceOutcomes == {"ok", "allocate", "allocateCrash", "submit", "wait"}

\* (mutant) swapBuffers moved ahead of the submission
UpdateStatements_flipBeforeSubmit ==
    <<"vkAllocateCommandBuffers", "vkBeginCommandBuffer",
      "vkCmdBindPipeline", "vkCmdBindDescriptorSets", "vkCmdPushConstants",
      "vkCmdDispatch", "vkEndCommandBuffer", "swapBuffers", "vkQueueSubmit",
      "vkQueueWaitIdle", "vkFreeCommandBuffers">>

\* The calls of update(), in program order: beginSingleTimeCommands,
\* recordComputeCommands, endSingleTimeCommands, swapBuffers.
UpdateStatements ==
    <<"vkAllocateCommandBuffers", "vkBeginCommandBuffer",
      "vkCmdBindPipeline", "vkCmdBindDescriptorSets", "vkCmdPushConstants",
      "vkCmdDispatch", "vkEndCommandBuffer", "vkQueueSubmit",
      "vkQueueWaitIdle", "vkFreeCommandBuffers", "swapBuffers">>

\* The result one call hands back; update() looks at none of them
CallResult(statement, device) ==
    IF \/ statement = "vkAllocateCommandBuffers"
             /\ device \in {"allocate", "allocateCrash"}
       \/ statement = "vkQueueSubmit" /\ device = "submit"
       \/ statement = "vkQueueWaitIdle" /\ device = "wait"
      THEN "error"
      ELSE "returned"

Logged(e, statement, device) ==
    Append(e.lastStep.events,
           [call |-> statement, result |-> CallResult(statement, device),
            currentBuffer |-> e.currentBuffer])

\* recordComputeCommands, statement by statement; the other statements of
\* update() leave the engine's members alone
recordComputeCommands(e, statement) ==
    IF statement = "vkCmdBindDescriptorSets"
      THEN [e EXCEPT
              !.lastStep.set = e.currentBuffer,
              !.lastStep.readBuffer =
                  e.descriptorSets[e.currentBuffer + 1].binding0,
              !.lastStep.writeBuffer =
                  e.descriptorSets[e.currentBuffer + 1].binding1]
    ELSE IF statement = "vkCmdPushConstants"
      THEN [e EXCEPT !.lastStep.pushConstants =
                        <<e.gridSizeX, e.gridSizeY, e.gridSizeZ>>]
    ELSE IF statement = "vkCmdDispatch"
      THEN [e EXCEPT !.lastStep.groups =
                        <<GroupCount(e.gridSizeX), GroupCount(e.gridSizeY),
                          GroupCount(e.gridSizeZ)>>]
    ELSE e

\* One statement of update(): the process dies at the first use of the
\* command buffer when the device outcome says so; otherwise the call is
\* made and logged, and swapBuffers flips the index.
Execute(e, statement, device) ==
    IF device = "allocateCrash" /\ statement = "vkBeginCommandBuffer"
      THEN [e EXCEPT !.terminated = TRUE]
    ELSE LET logged == [e EXCEPT !.lastStep.events = Logged(e, statement, device)]
         IN IF statement = "swapBuffers"
              THEN [logged EXCEPT !.currentBuffer = swapBuffers(e.currentBuffer)]
              ELSE recordComputeCommands(logged, statement)

RECURSIVE RunFrom(_, _, _)
RunFrom(e, i, device) ==
    IF i > Len(UpdateStatements) \/ e.terminated THEN e
    ELSE RunFrom(Execute(e, UpdateStatements[i], device), i + 1, device)

\* GameOfLife3D::update: begin, record, submit and wait, then swapBuffers
update(e, device) ==
    RunFrom([e EXCEPT !.lastStep = [NoStep EXCEPT !.device = device]], 1, device)

\* an engine whose init returned, in a process that is still running
Usable(e) == e.initialised /\ ~e.terminated

\* update() has no test of its own: it reads the pipeline, its layout, the
\* dimensions and descriptorSets[currentBuffer].  The creation steps run in
\* one order and init writes the dimensions first, so all of these hold a
\* value once the descriptor set of the current index has been allocated,
\* whether or not the init that allocated it returned.  An update() that
\* reads a member holding no value is not modelled.
Ready(e) ==
    /\ ~e.terminated
    /\ InitSteps[StepIndex("descriptorSet0") + e.currentBuffer] \in e.created

\* the number of host cells that are not 0
LiveCells(e) == Cardinality({i \in DOMAIN e.gridState : e.gridState[i] # 0})

\* ---- the engine's operations as actions on `engine`
DebuggerUntouched == UNCHANGED <<dbgState, closed>>

EngineInit(sizeX, sizeY, sizeZ, failAt) ==
    /\ ~engine.terminated
    /\ engine' = init(engine, sizeX, sizeY, sizeZ, failAt)
    /\ lastCall' = Call("init", IF failAt = "none" THEN "void" ELSE "throws")
    /\ UNCHANGED <<steps, twinVars, game>>
    /\ DebuggerUntouched

SetCell(x, y, z, state) ==
    /\ Usable(engine)
    /\ engine' = setCell(engine, x, y, z, state)
    /\ lastCall' = CallWith("setCell", "void", <<x, y, z, state>>)
    /\ UNCHANGED <<steps, twinVars, game>>
    /\ DebuggerUntouched

\* lastCall tells how many live cells the call found
Reset ==
    /\ Usable(engine)
    /\ engine' = reset(engine)
    /\ lastCall' = CallWith("reset", "void", LiveCells(engine))
    /\ UNCHANGED <<steps, twinVars, game>>
    /\ DebuggerUntouched

Update(device) ==
    /\ Ready(engine)
    /\ engine' = update(engine, device)
    /\ steps' = IF engine'.terminated THEN steps ELSE steps + 1
    /\ lastCall' = Call("update", IF engine'.terminated THEN "terminated" ELSE "void")
    /\ UNCHANGED <<twinVars, game>>
    /\ DebuggerUntouched

\* ---- the device's side of init and update, for SpecDevice
CellStates == {0, 1}

\* every content a buffer of n cells can have
DeviceCells(n) == [1..n -> CellStates]

BufferIndex(handle) == IF handle = "gridBuffer0" THEN 1 ELSE 2

\* createBuffers: two buffers of gridState.size() cells in device-local
\* memory (VMA_MEMORY_USAGE_GPU_ONLY); nothing fills them, so they hold
\* whatever the memory held: cells0 and cells1
Allocated(e, cells0, cells1) == [e EXCEPT !.deviceMemory = <<cells0, cells1>>]

\* The device runs the dispatch of a step that was submitted and waited
\* for: the shader writes the buffer at binding 1 of the bound set.  The
\* shader is loaded from shaders/game_of_life_3d.comp.spv and its rule is
\* not part of these sources, so `written` is any content.
Executed(e, written) ==
    IF e.lastStep.device = "ok"
      THEN [e EXCEPT !.deviceMemory[BufferIndex(e.lastStep.writeBuffer)] = written]
      ELSE e

DeviceInit(sizeX, sizeY, sizeZ, cells0, cells1) ==
    /\ ~engine.terminated
    /\ engine' = Allocated(init(engine, sizeX, sizeY, sizeZ, "none"), cells0, cells1)
    /\ lastCall' = Call("init", "void")
    /\ UNCHANGED <<steps, twinVars, game>>
    /\ DebuggerUntouched

DeviceUpdate(device, written) ==
    /\ Ready(engine)
    /\ engine' = Executed(update(engine, device), written)
    /\ steps' = steps + 1
    /\ lastCall' = Call("update", "void")
    /\ UNCHANGED <<twinVars, game>>
    /\ DebuggerUntouched

(***************************************************************************)
(* UXTestGame (test_cpp_game.cpp)                                          *)
(*                                                                         *)
(* Times are held in half seconds and positions in pixels: with frames of  *)
(* 0.5 s and 2 s every product of a speed and a frame time is a whole      *)
(* number of pixels, and every float of the program is exact.              *)
(***************************************************************************)
ScreenWidth == 640
ScreenHeight == 480
playerSpeed == 100

\* OnUserCreate: {x, y, w, h} of the three menu buttons and the seven
\* settings buttons; all are enabled
menuButtons ==
    <<[x |-> 50, y |-> 100, w |-> 150, h |-> 40],
      [x |-> 50, y |-> 160, w |-> 150, h |-> 40],
      [x |-> 50, y |-> 220, w |-> 150, h |-> 40]>>

settingsButtons ==
    <<[x |-> 50, y |-> 100, w |-> 100, h |-> 30],
      [x |-> 160, y |-> 100, w |-> 100, h |-> 30],
      [x |-> 50, y |-> 150, w |-> 200, h |-> 30],
      [x |-> 50, y |-> 200, w |-> 100, h |-> 30],
      [x |-> 160, y |-> 200, w |-> 100, h |-> 30],
      [x |-> 270, y |-> 200, w |-> 100, h |-> 30],
      [x |-> 50, y |-> 280, w |-> 100, h |-> 30]>>

menuItems == <<"Start Game", "Settings", "Exit">>

IsClicked(btn, mouseX, mouseY) ==
    /\ mouseX >= btn.x /\ mouseX <= btn.x + btn.w
    /\ mouseY >= btn.y /\ mouseY <= btn.y + btn.h

\* The member initialisers of the class and OnUserCreate.  `returned` is a
\* history field: what the latest OnUserCreate or OnUserUpdate returned.
GameCreated ==
    [currentState |-> "MENU", playerX |-> 50, playerY |-> 50, score |-> 0,
     lives |-> 3, gameTime |-> 0, selectedMenuItem |-> 0, volume |-> 50,
     fullscreen |-> FALSE, difficulty |-> 1, enemies |-> <<>>,
     returned |-> TRUE]

InitializeGame(g) ==
    [g EXCEPT !.playerX = 50, !.playerY = 100, !.score = 0, !.lives = 3,
              !.gameTime = 0, !.enemies = <<>>]

\* case 0 / case 1 / case 2 of the two switches of UpdateMenu; case 2
\* returns from UpdateMenu (`left` tells the caller to stop)
MenuAction(g, item) ==
    CASE item = 0 -> [g |-> InitializeGame([g EXCEPT !.currentState = "PLAYING"]),
                      left |-> FALSE]
      [] item = 1 -> [g |-> [g EXCEPT !.currentState = "SETTINGS"], left |-> FALSE]
      [] OTHER -> [g |-> g, left |-> TRUE]

\* the loop over menuButtons from button i on
RECURSIVE MenuClicks(_, _, _, _)
MenuClicks(g, i, mouseX, mouseY) ==
    IF i > Len(menuButtons) THEN [g |-> g, left |-> FALSE]
    ELSE IF IsClicked(menuButtons[i], mouseX, mouseY)
      THEN LET done == MenuAction([g EXCEPT !.selectedMenuItem = i - 1], i - 1)
           IN IF done.left THEN done
              ELSE MenuClicks(done.g, i + 1, mouseX, mouseY)
      ELSE MenuClicks(g, i + 1, mouseX, mouseY)

\* UpdateMenu up to its return: the game it leaves, and whether it returned
\* from one of the two `case 2` (Exit)
MenuFrame(g, keys, mouse) ==
    LET up == IF "UP" \in keys.pressed /\ g.selectedMenuItem > 0
                THEN [g EXCEPT !.selectedMenuItem = @ - 1] ELSE g
        down == IF "DOWN" \in keys.pressed
                   /\ up.selectedMenuItem < Len(menuItems) - 1
                  THEN [up EXCEPT !.selectedMenuItem = @ + 1] ELSE up
        entered == IF "ENTER" \in keys.pressed
                     THEN MenuAction(down, down.selectedMenuItem)
                     ELSE [g |-> down, left |-> FALSE]
    IN IF entered.left THEN entered
       ELSE IF mouse.pressed THEN MenuClicks(entered.g, 1, mouse.x, mouse.y)
       ELSE entered

UpdateMenu(g, keys, mouse) == MenuFrame(g, keys, mouse).g

Max(a, b) == IF a >= b THEN a ELSE b
Min(a, b) == IF a <= b THEN a ELSE b

\* speed in pixels per second times a frame time in half seconds
Travelled(speed, fElapsedTime) == (speed * fElapsedTime) \div 2

\* the four movement tests and the two clamps
MovePlayer(g, keys, fElapsedTime) ==
    LET step == Travelled(playerSpeed, fElapsedTime)
        x1 == IF {"A", "LEFT"} \cap keys.held # {} THEN g.playerX - step ELSE g.playerX
        x2 == IF {"D", "RIGHT"} \cap keys.held # {} THEN x1 + step ELSE x1
        y1 == IF {"W", "UP"} \cap keys.held # {} THEN g.playerY - step ELSE g.playerY
        y2 == IF {"S", "DOWN"} \cap keys.held # {} THEN y1 + step ELSE y1
    IN [g EXCEPT !.playerX = Max(10, Min(x2, ScreenWidth - 20)),
                 !.playerY = Max(50, Min(y2, ScreenHeight - 20))]

\* fmod(gameTime, 2.0f) < fElapsedTime; dis(gen) is spawnX
SpawnEnemy(g, fElapsedTime, spawnX) ==
    IF g.gameTime % 4 < fElapsedTime
      THEN [g EXCEPT !.enemies =
              Append(@, [x |-> spawnX, y |-> 10, dy |-> 50 + g.difficulty * 30])]
      ELSE g

MoveEnemies(g, fElapsedTime) ==
    [g EXCEPT !.enemies =
       [i \in 1..Len(@) |-> [@[i] EXCEPT !.y = @ + Travelled(g.enemies[i].dy, fElapsedTime)]]]

\* remove_if with the score counted in the predicate
RECURSIVE OnScreen(_)
OnScreen(enemies) ==
    IF enemies = <<>> THEN <<>>
    ELSE IF Head(enemies).y > ScreenHeight THEN OnScreen(Tail(enemies))
    ELSE <<Head(enemies)>> \o OnScreen(Tail(enemies))

RemoveOffScreen(g) ==
    LET kept == OnScreen(g.enemies)
    IN [g EXCEPT !.enemies = kept,
                 !.score = @ + 10 * (Len(g.enemies) - Len(kept))]

\* sqrt(dx*dx + dy*dy) < 20
Touches(enemy, g) ==
    (enemy.x - g.playerX) * (enemy.x - g.playerX)
      + (enemy.y - g.playerY) * (enemy.y - g.playerY) < 400

\* (mutant) the collision loop without its return: it goes on to the
\* enemies after the one that took the last life
RECURSIVE CheckCollisions_noReturn(_, _)
CheckCollisions_noReturn(g, i) ==
    IF i > Len(g.enemies) THEN g
    ELSE IF Touches(g.enemies[i], g)
      THEN LET hit == [g EXCEPT !.lives = @ - 1,
                                !.enemies = SubSeq(@, 1, i - 1)
                                              \o SubSeq(@, i + 1, Len(@))]
           IN CheckCollisions_noReturn(
                 IF hit.lives <= 0 THEN [hit EXCEPT !.currentState = "GAME_OVER"]
                 ELSE hit, i)
      ELSE CheckCollisions_noReturn(g, i + 1)

\* the collision loop from the enemy at position i on; with the last life
\* gone it sets GAME_OVER and returns from UpdateGame
RECURSIVE CheckCollisions(_, _)
CheckCollisions(g, i) ==
    IF i > Len(g.enemies) THEN g
    ELSE IF Touches(g.enemies[i], g)
      THEN LET hit == [g EXCEPT !.lives = @ - 1,
                                !.enemies = SubSeq(@, 1, i - 1)
                                              \o SubSeq(@, i + 1, Len(@))]
           IN IF hit.lives <= 0 THEN [hit EXCEPT !.currentState = "GAME_OVER"]
              ELSE CheckCollisions(hit, i)
      ELSE CheckCollisions(g, i + 1)

UpdateGame(g, keys, fElapsedTime, spawnX) ==
    LET collided ==
          CheckCollisions(
             RemoveOffScreen(
                MoveEnemies(SpawnEnemy(MovePlayer(g, keys, fElapsedTime),
                                       fElapsedTime, spawnX),
                            fElapsedTime)), 1)
    IN IF collided.currentState = "GAME_OVER" THEN collided
       ELSE IF "ESCAPE" \in keys.pressed
         THEN [collided EXCEPT !.currentState = "MENU"]
       ELSE collided

\* case 0 .. case 6 of the switch of UpdateSettings
SettingsAction(g, i) ==
    CASE i = 0 -> [g EXCEPT !.volume = Max(0, @ - 10)]
      [] i = 1 -> [g EXCEPT !.volume = Min(100, @ + 10)]
      [] i = 2 -> [g EXCEPT !.fullscreen = ~@]
      [] i = 3 -> [g EXCEPT !.difficulty = 0]
      [] i = 4 -> [g EXCEPT !.difficulty = 1]
      [] i = 5 -> [g EXCEPT !.difficulty = 2]
      [] OTHER -> [g EXCEPT !.currentState = "MENU"]

RECURSIVE SettingsClicks(_, _, _, _)
SettingsClicks(g, i, mouseX, mouseY) ==
    IF i > Len(settingsButtons) THEN g
    ELSE SettingsClicks(IF IsClicked(settingsButtons[i], mouseX, mouseY)
                          THEN SettingsAction(g, i - 1) ELSE g,
                        i + 1, mouseX, mouseY)

UpdateSettings(g, keys, mouse) ==
    LET clicked == IF mouse.pressed THEN SettingsClicks(g, 1, mouse.x, mouse.y)
                   ELSE g
    IN IF "ESCAPE" \in keys.pressed THEN [clicked EXCEPT !.currentState = "MENU"]
       ELSE clicked

UpdateGameOver(g, keys) ==
    LET entered == IF "ENTER" \in keys.pressed
                     THEN [g EXCEPT !.currentState = "MENU"] ELSE g
    IN IF "SPACE" \in keys.pressed
         THEN InitializeGame([entered EXCEPT !.currentState = "PLAYING"])
         ELSE entered

\* One frame.  keys is the keyboard of the frame (the keys that went down in
\* it and the keys that are down), mouse the left button and the pointer,
\* spawnX the number the random engine gives if an enemy is spawned.
OnUserUpdate(fElapsedTime, keys, mouse, spawnX) ==
    /\ LET g == [game EXCEPT !.gameTime = @ + fElapsedTime]
           updated ==
             CASE g.currentState = "MENU" -> UpdateMenu(g, keys, mouse)
               [] g.currentState = "PLAYING" ->
                    UpdateGame(g, keys, fElapsedTime, spawnX)
               [] g.currentState = "SETTINGS" -> UpdateSettings(g, keys, mouse)
               [] OTHER -> UpdateGameOver(g, keys)
       IN game' = [updated EXCEPT !.returned = TRUE]
    /\ UNCHANGED <<dbgVars, engineVars, twinVars>>

EngineIdle ==
    /\ engine = EngineConstructed
    /\ steps = 0
    /\ twin = EngineConstructed
    /\ twin_enabled = TRUE
    /\ game = GameCreated

(***************************************************************************)
(* Spec: every debugger operation, in any order                            *)
(***************************************************************************)
MemoryBarriers == [srcAccessMask : AccessMasks, dstAccessMask : AccessMasks]
BufferBarriers == [buffer : BufferHandles \cup {NullHandle}, size : BarrierSizes,
                   srcAccessMask : AccessMasks, dstAccessMask : AccessMasks]
ImageBarriers == [image : ImageHandles \cup {NullHandle},
                  srcAccessMask : AccessMasks, dstAccessMask : AccessMasks]

Init == DebuggerInit(TRUE) /\ EngineIdle

\* The ledgers and counters are unbounded in the program; a call that would
\* grow them past the model's bound is not made.  n is the number of
\* messages the call appends when the debugger is enabled.
MessagesRoom(n) ==
    ~m_enabled \/ Len(m_errors) + Len(m_warnings) + n <= MaxMessages

DebuggerNext ==
    \/ \E b \in BOOLEAN : SetEnabled(b)
    \/ ClearMessages
    \/ \E h \in {NullHandle, "module"}, n \in ShaderNames :
          MessagesRoom(1) /\ ValidateShaderModule(h, n)
    \/ \E h \in {NullHandle, "pipeline"}, n \in ShaderNames :
          MessagesRoom(1) /\ ValidateComputePipeline(h, n)
    \/ \E h \in BufferHandles, s \in BufferSizes, n \in ResourceNames :
          TrackBuffer(h, s, n)
    \/ \E h \in ImageHandles, e \in Extents, f \in Formats, n \in ResourceNames :
          TrackImage(h, e, f, n)
    \/ \E h \in BufferHandles : UntrackBuffer(h)
    \/ \E h \in ImageHandles : UntrackImage(h)
    \/ \E n \in ShaderNames, g \in GroupCounts : BeginDispatch(n, g[1], g[2], g[3])
    \/ (closed < MaxClosed \/ ~EndDispatchAppends) /\ EndDispatch
    \/ \E n \in MarkerNames :
          (m_currentTimestampIndex < MaxMarkers \/ ~m_enabled) /\ InsertTimestamp(n)
    \/ \E b \in MemoryBarriers : MessagesRoom(1) /\ ValidateMemoryBarrier(b)
    \/ \E b \in BufferBarriers : MessagesRoom(1) /\ ValidateBufferMemoryBarrier(b)
    \/ \E b \in ImageBarriers : MessagesRoom(1) /\ ValidateImageMemoryBarrier(b)
    \/ \E ss, ds \in StageMasks, sa, da \in AccessMasks :
          /\ MessagesRoom(Len(HazardWarnings(sa, da)) + Len(HazardErrors(ss, ds)))
          /\ CheckSynchronizationHazards(ss, ds, sa, da)

Spec == Init /\ [][DebuggerNext]_vars

(***************************************************************************)
(* SpecLedgers: the operations that log, on a debugger whose query pool    *)
(* was or was not created, with ledgers of up to MaxLedger messages        *)
(***************************************************************************)
HazardAccessMasks ==
    {0, VK_ACCESS_SHADER_READ_BIT, VK_ACCESS_SHADER_WRITE_BIT,
     VK_ACCESS_SHADER_READ_BIT + VK_ACCESS_SHADER_WRITE_BIT}

LedgerInit == \E poolCreated \in BOOLEAN : DebuggerInit(poolCreated) /\ EngineIdle

LedgerRoom(n) ==
    ~m_enabled \/ Len(m_errors) + Len(m_warnings) + n <= MaxLedger

LedgerNext ==
    \/ \E b \in BOOLEAN : SetEnabled(b)
    \/ ClearMessages
    \/ \E h \in {NullHandle, "module"}, n \in ShaderNames :
          LedgerRoom(1) /\ ValidateShaderModule(h, n)
    \/ \E b \in MemoryBarriers : LedgerRoom(1) /\ ValidateMemoryBarrier(b)
    \/ \E ss, ds \in StageMasks, sa, da \in HazardAccessMasks :
          /\ LedgerRoom(Len(HazardWarnings(sa, da)) + Len(HazardErrors(ss, ds)))
          /\ CheckSynchronizationHazards(ss, ds, sa, da)
    \/ \E h \in BufferHandles, z \in BufferSizes, n \in ResourceNames :
          TrackBuffer(h, z, n)
    \/ \E n \in MarkerNames :
          (m_currentTimestampIndex < MaxMarkers \/ ~m_enabled) /\ InsertTimestamp(n)

SpecLedgers == LedgerInit /\ [][LedgerNext]_vars

(***************************************************************************)
(* SpecReports: the reporting operations among operations that fill every  *)
(* member they read                                                        *)
(***************************************************************************)
ReportNext ==
    \/ \E b \in BOOLEAN : SetEnabled(b)
    \/ \E h \in BufferHandles, z \in BufferSizes, n \in ResourceNames :
          TrackBuffer(h, z, n)
    \/ \E h \in ImageHandles, x \in Extents, f \in Formats, n \in ResourceNames :
          TrackImage(h, x, f, n)
    \/ \E n \in ShaderNames, g \in GroupCounts : BeginDispatch(n, g[1], g[2], g[3])
    \/ (closed < MaxClosed \/ ~EndDispatchAppends) /\ EndDispatch
    \/ \E n \in MarkerNames :
          (m_currentTimestampIndex < MaxMarkers \/ ~m_enabled) /\ InsertTimestamp(n)
    \/ \E h \in {NullHandle, "module"}, n \in ShaderNames :
          MessagesRoom(1) /\ ValidateShaderModule(h, n)
    \/ \E b \in MemoryBarriers : MessagesRoom(1) /\ ValidateMemoryBarrier(b)
    \/ GetStatistics
    \/ \E opened \in BOOLEAN : DumpDebugInfo(opened)
    \/ PrintResourceUsage
    \/ PrintDispatchHistory

SpecReports == Init /\ [][ReportNext]_vars

(***************************************************************************)
(* SpecHistory: dispatches opened and closed until the history has held    *)
(* its capacity and HistoryOverrun more                                    *)
(***************************************************************************)
HistoryNext ==
    \/ \E b \in BOOLEAN : SetEnabled(b)
    \/ \E n \in ShaderNames, g \in GroupCounts : BeginDispatch(n, g[1], g[2], g[3])
    \/ (closed < HistoryCapacity + HistoryOverrun \/ ~EndDispatchAppends)
          /\ EndDispatch
    \/ ClearMessages

SpecHistory == Init /\ [][HistoryNext]_vars

(***************************************************************************)
(* SpecTimestamps: timestamps requested until the pool of 1000 is used up  *)
(* and beyond, among other operations                                      *)
(***************************************************************************)
TimestampNext ==
    \/ \E b \in BOOLEAN : SetEnabled(b)
    \/ \E n \in MarkerNames : InsertTimestamp(n)
    \/ ClearMessages
    \/ \E n \in ShaderNames, g \in GroupCounts : BeginDispatch(n, g[1], g[2], g[3])
    \/ (closed < MaxClosed \/ ~EndDispatchAppends) /\ EndDispatch

SpecTimestamps == Init /\ [][TimestampNext]_vars

(***************************************************************************)
(* SpecTrack: the two tracking tables, with two handles of each kind       *)
(***************************************************************************)
TrackedBufferHandles == {"bufA", "bufB"}
TrackedImageHandles == {"imgA", "imgB"}
TrackedExtents == {[width |-> 4, height |-> 4, depth |-> 1],
                   [width |-> 8, height |-> 8, depth |-> 2]}
TrackedNames == {"res", "grid"}

TrackNext ==
    \/ \E b \in BOOLEAN : SetEnabled(b)
    \/ \E h \in TrackedBufferHandles, s \in BufferSizes, n \in TrackedNames :
          TrackBuffer(h, s, n)
    \/ \E h \in TrackedImageHandles, e \in TrackedExtents, f \in Formats,
          n \in TrackedNames : TrackImage(h, e, f, n)
    \/ \E h \in TrackedBufferHandles : UntrackBuffer(h)
    \/ \E h \in TrackedImageHandles : UntrackImage(h)

SpecTrack == Init /\ [][TrackNext]_vars

(***************************************************************************)
(* SpecDispatch: dispatches of two shaders opened and closed               *)
(***************************************************************************)
DispatchNames == {"game_of_life_3d", "prefix_sum"}
DispatchGroups == {<<1, 1, 1>>, <<13, 13, 13>>}

DispatchNext ==
    \/ \E b \in BOOLEAN : SetEnabled(b)
    \/ \E n \in DispatchNames, g \in DispatchGroups :
          BeginDispatch(n, g[1], g[2], g[3])
    \/ (closed < MaxClosed \/ ~EndDispatchAppends) /\ EndDispatch

SpecDispatch == Init /\ [][DispatchNext]_vars

(***************************************************************************)
(* SpecCounts: dispatches of two shaders closed and counted by             *)
(* getStatistics                                                           *)
(***************************************************************************)
CountNext ==
    \/ \E b \in BOOLEAN : SetEnabled(b)
    \/ \E n \in DispatchNames, g \in GroupCounts : BeginDispatch(n, g[1], g[2], g[3])
    \/ (closed < MaxCounted \/ ~EndDispatchAppends) /\ EndDispatch
    \/ GetStatistics

SpecCounts == Init /\ [][CountNext]_vars

(***************************************************************************)
(* SpecEngine: the engine alone                                            *)
(***************************************************************************)
GridDims == {<<1, 1, 1>>, <<2, 1, 2>>, <<1, 2, 2>>}
Coords == 0..2
InitFailures == {"none"} \cup {InitSteps[i] : i \in 1..Len(InitSteps)}
MaxSteps == 2

EngineNext ==
    \/ \E d \in GridDims, f \in InitFailures : EngineInit(d[1], d[2], d[3], f)
    \/ \E x, y, z \in Coords, s \in CellStates : SetCell(x, y, z, s)
    \/ Reset
    \/ \E d \in DeviceOutcomes : steps < MaxSteps /\ Update(d)

SpecEngine == Init /\ [][EngineNext]_vars

(***************************************************************************)
(* SpecDevice: the engine with the contents of its two device buffers      *)
(***************************************************************************)
DeviceDims == {<<1, 1, 1>>, <<2, 1, 1>>}
DeviceCoords == 0..1
SubmittedOutcomes == {"ok", "submit"}

DeviceNext ==
    \/ \E d \in DeviceDims :
          \E cells0, cells1 \in DeviceCells(TotalCells(d[1], d[2], d[3])) :
             DeviceInit(d[1], d[2], d[3], cells0, cells1)
    \/ \E x \in DeviceCoords, s \in CellStates : SetCell(x, 0, 0, s)
    \/ Reset
    \/ \E device \in SubmittedOutcomes :
          \E written \in DeviceCells(Len(engine.gridState)) :
             steps < MaxSteps /\ DeviceUpdate(device, written)

SpecDevice == Init /\ [][DeviceNext]_vars

(***************************************************************************)
(* SpecGroups: one engine initialised once with one long axis, then        *)
(* stepped: the group counts of every axis length up to MaxAxis            *)
(***************************************************************************)
MaxAxis == 128

AxisDims ==
    UNION {{<<d, 1, 1>>, <<1, d, 1>>, <<1, 1, d>>} : d \in 1..MaxAxis}

GroupsNext ==
    \/ \E d \in AxisDims :
          ~engine.initialised /\ EngineInit(d[1], d[2], d[3], "none")
    \/ \E d \in DeviceOutcomes : steps < MaxSteps /\ Update(d)

SpecGroups == Init /\ [][GroupsNext]_vars

(***************************************************************************)
(* SpecWide: one engine initialised once, with dimensions near the top of  *)
(* uint32_t or dimensions whose product is 2^32 or more.  They are chosen  *)
(* so that the product modulo 2^32 is 0, 1 or 4 and the host grid can be   *)
(* written out.                                                            *)
(***************************************************************************)
\* 2^32 - k as a uint32_t
Top(k) == 0 - k

\* products 2^32 (0 cells modulo 2^32) and 2^32 + 4 (4 cells), and a small grid
WideDims == {<<65536, 65536, 1>>, <<1073741825, 4, 1>>, <<2, 2, 1>>}

\* an axis of 2^32 - 8 .. 2^32 - 1, in each position
TopAxisDims ==
    LET dims == {<<Top(1), Top(1), 1>>, <<Top(2), 1073741824, 2>>,
                 <<Top(3), 1431655765, 1>>, <<Top(4), 1073741824, 1>>,
                 <<Top(5), 858993459, 1>>, <<Top(6), 1073741824, 2>>,
                 <<Top(7), 1227133513, 1>>, <<Top(8), 536870912, 1>>}
    IN UNION {{<<d[1], d[2], d[3]>>, <<d[2], d[1], d[3]>>, <<d[3], d[2], d[1]>>} :
                d \in dims}

WideCoords == {0, 1, 4}

WideNext ==
    \/ \E d \in WideDims \cup TopAxisDims :
          ~engine.initialised /\ EngineInit(d[1], d[2], d[3], "none")
    \/ \E x, y \in WideCoords, s \in CellStates : SetCell(x, y, 0, s)
    \/ Reset
    \/ \E d \in SubmittedOutcomes : steps < MaxSteps /\ Update(d)

SpecWide == Init /\ [][WideNext]_vars

(***************************************************************************)
(* SpecPingPong: one engine initialised once (init creates new buffers, so *)
(* the handles of two steps are comparable within one initialisation),     *)
(* then edited and stepped MaxFrames times                                 *)
(***************************************************************************)
PingPongNext ==
    \/ \E d \in DeviceDims :
          ~engine.initialised /\ EngineInit(d[1], d[2], d[3], "none")
    \/ \E x \in DeviceCoords, s \in CellStates : SetCell(x, 0, 0, s)
    \/ Reset
    \/ \E d \in DeviceOutcomes : steps < MaxFrames /\ Update(d)

SpecPingPong == Init /\ [][PingPongNext]_vars

(***************************************************************************)
(* SpecPair: two engines given the same calls, with the same outcomes of   *)
(* the device, each beside a debugger that is switched on and off freely   *)
(***************************************************************************)
SetTwinEnabled(enabled) ==
    /\ twin_enabled' = enabled
    /\ lastCall' = Call("setEnabled", "void")
    /\ UNCHANGED <<dbgState, closed, engineVars, twin, game>>

PairInit(sizeX, sizeY, sizeZ, failAt) ==
    /\ ~engine.terminated /\ ~twin.terminated
    /\ engine' = init(engine, sizeX, sizeY, sizeZ, failAt)
    /\ twin' = init(twin, sizeX, sizeY, sizeZ, failAt)
    /\ lastCall' = Call("init", IF failAt = "none" THEN "void" ELSE "throws")
    /\ UNCHANGED <<steps, twin_enabled, game>>
    /\ DebuggerUntouched

PairSetCell(x, y, z, state) ==
    /\ Usable(engine) /\ Usable(twin)
    /\ engine' = setCell(engine, x, y, z, state)
    /\ twin' = setCell(twin, x, y, z, state)
    /\ lastCall' = CallWith("setCell", "void", <<x, y, z, state>>)
    /\ UNCHANGED <<steps, twin_enabled, game>>
    /\ DebuggerUntouched

PairReset ==
    /\ Usable(engine) /\ Usable(twin)
    /\ engine' = reset(engine)
    /\ twin' = reset(twin)
    /\ lastCall' = Call("reset", "void")
    /\ UNCHANGED <<steps, twin_enabled, game>>
    /\ DebuggerUntouched

\* (mutant) update that runs only while the engine's debugger is enabled
PairUpdate_gated(device) ==
    /\ Usable(engine) /\ Usable(twin)
    /\ engine' = IF m_enabled THEN update(engine, device) ELSE engine
    /\ twin' = IF twin_enabled THEN update(twin, device) ELSE twin
    /\ steps' = IF engine'.terminated THEN steps ELSE steps + 1
    /\ lastCall' = Call("update", IF engine'.terminated THEN "terminated" ELSE "void")
    /\ UNCHANGED <<twin_enabled, game>>
    /\ DebuggerUntouched

PairUpdate(device) ==
    /\ Usable(engine) /\ Usable(twin)
    /\ engine' = update(engine, device)
    /\ twin' = update(twin, device)
    /\ steps' = IF engine'.terminated THEN steps ELSE steps + 1
    /\ lastCall' = Call("update", IF engine'.terminated THEN "terminated" ELSE "void")
    /\ UNCHANGED <<twin_enabled, game>>
    /\ DebuggerUntouched

PairDims == {<<1, 1, 1>>, <<2, 1, 1>>}
PairCoords == 0..1
PairFailures == {"none", "gridBuffer1"}

PairNext ==
    \/ \E b \in BOOLEAN : SetEnabled(b)
    \/ \E b \in BOOLEAN : SetTwinEnabled(b)
    \/ \E d \in PairDims, f \in PairFailures : PairInit(d[1], d[2], d[3], f)
    \/ \E x, y, z \in PairCoords, s \in CellStates : PairSetCell(x, y, z, s)
    \/ PairReset
    \/ \E d \in DeviceOutcomes : steps < MaxSteps /\ PairUpdate(d)

SpecPair == Init /\ [][PairNext]_vars

(***************************************************************************)
(* SpecMirror: `engine` with its device buffers followed, and beside it    *)
(* `twin`, which is given the same init, setCell and reset calls and is    *)
(* never stepped                                                           *)
(***************************************************************************)
MirrorInit(sizeX, sizeY, sizeZ, cells0, cells1) ==
    /\ ~engine.terminated /\ ~twin.terminated
    /\ engine' = Allocated(init(engine, sizeX, sizeY, sizeZ, "none"), cells0, cells1)
    /\ twin' = Allocated(init(twin, sizeX, sizeY, sizeZ, "none"), cells0, cells1)
    /\ lastCall' = Call("init", "void")
    /\ UNCHANGED <<steps, twin_enabled, game>>
    /\ DebuggerUntouched

MirrorNext ==
    \/ \E d \in DeviceDims :
          \E cells0, cells1 \in DeviceCells(TotalCells(d[1], d[2], d[3])) :
             MirrorInit(d[1], d[2], d[3], cells0, cells1)
    \/ \E x \in DeviceCoords, s \in CellStates : PairSetCell(x, 0, 0, s)
    \/ PairReset
    \/ \E device \in SubmittedOutcomes :
          \E written \in DeviceCells(Len(engine.gridState)) :
             steps < MaxSteps /\ DeviceUpdate(device, written)

SpecMirror == Init /\ [][MirrorNext]_vars

(***************************************************************************)
(* The claims                                                              *)
(***************************************************************************)

\* C1 (SpecEngine): after n update() calls on an engine constructed with
\* index 0, whatever setCell/reset/init calls come between, the current
\* buffer index is n mod 2; it is always 0 or 1, and the buffer the next
\* dispatch writes is the one with index 1 - current.
C1_BufferIndexParity ==
    /\ engine.currentBuffer = steps % 2
    /\ engine.currentBuffer \in {0, 1}
    /\ engine.initialised =>
          /\ engine.descriptorSets[engine.currentBuffer + 1].binding0
                = engine.gridBuffers[engine.currentBuffer + 1]
          /\ engine.descriptorSets[engine.currentBuffer + 1].binding1
                = engine.gridBuffers[(1 - engine.currentBuffer) + 1]

C1_Witness ==
    lastCall.op = "update" /\ steps = 2 /\ engine.currentBuffer = 0

\* C2 (SpecHistory): the dispatch history never holds more than 1000
\* records, whatever operations are called.
C2_HistoryBounded == Len(m_dispatchHistory) <= HistoryCapacity

C2_Witness ==
    /\ lastCall.op = "endDispatch"
    /\ closed = HistoryCapacity + 2
    /\ Len(m_dispatchHistory) = HistoryCapacity

\* C3 (SpecHistory): with k dispatches closed so far, the history is the
\* most recent min(k, 1000) of them in the order they were closed: its
\* i-th record is the (k - length + i)-th dispatch closed, so an eviction
\* removes the oldest record and the newest record is last.
C3_HistoryIsRecentWindow ==
    /\ Len(m_dispatchHistory) =
          IF closed < HistoryCapacity THEN closed ELSE HistoryCapacity
    /\ \A i \in 1..Len(m_dispatchHistory) :
          m_dispatchHistory[i].seq = closed - Len(m_dispatchHistory) + i

C3_Witness ==
    /\ lastCall.op = "endDispatch"
    /\ closed = HistoryCapacity + 2
    /\ m_dispatchHistory[1].seq = 3
    /\ m_dispatchHistory[HistoryCapacity].seq = closed

\* C4 (Spec): an endDispatch call made while no dispatch is open changes
\* nothing in the debugger: history, in-flight slot, tracked tables, both
\* ledgers, timestamps.
C4_EndWithoutBeginIsNoOp ==
    [][(lastCall'.op = "endDispatch" /\ ~m_inDispatch)
          => UNCHANGED <<dbgState, closed>>]_vars

\* endDispatch ran enabled and nothing was ever appended: no dispatch was open
C4_Witness ==
    lastCall.op = "endDispatch" /\ m_enabled /\ ~m_inDispatch /\ closed = 0

C6_OutOfBoundsIgnored ==
    [][(/\ lastCall'.op = "setCell"
        /\ \/ lastCall'.arg[1] >= engine.gridSizeX
           \/ lastCall'.arg[2] >= engine.gridSizeY
           \/ lastCall'.arg[3] >= engine.gridSizeZ)
       => /\ engine' = engine
          /\ lastCall'.ret = "void"
          /\ UNCHANGED <<m_errors, m_warnings>>
      ]_vars

\* only z is out of bounds, on a grid that holds a live cell
C6_Witness ==
    /\ lastCall.op = "setCell"
    /\ lastCall.arg[1] < engine.gridSizeX
    /\ lastCall.arg[2] < engine.gridSizeY
    /\ lastCall.arg[3] >= engine.gridSizeZ
    /\ \E i \in 1..Len(engine.gridState) : engine.gridState[i] = 1

DisabledNoOps ==
    {"trackBuffer", "trackImage", "beginDispatch", "endDispatch",
     "insertTimestamp", "validateShaderModule", "validateComputePipeline",
     "validateMemoryBarrier", "validateBufferMemoryBarrier",
     "validateImageMemoryBarrier", "checkSynchronizationHazards"}

Validators ==
    {"validateShaderModule", "validateComputePipeline", "validateMemoryBarrier",
     "validateBufferMemoryBarrier", "validateImageMemoryBarrier"}

\* C7 (Spec): while the debugger is disabled, each of the eleven guarded
\* operations leaves the whole debugger state unchanged, and each validate*
\* call returns true, a null handle included.
C7_DisabledOperationsAreNoOps ==
    [][(~m_enabled /\ lastCall'.op \in DisabledNoOps)
          => /\ UNCHANGED <<dbgState, closed>>
             /\ lastCall'.op \in Validators => lastCall'.ret = "true"
      ]_vars

C7_Witness ==
    /\ ~m_enabled
    /\ lastCall.op = "validateImageMemoryBarrier"
    /\ lastCall.arg = NullHandle
    /\ lastCall.ret = "true"
    /\ m_inDispatch
    /\ DOMAIN m_trackedBuffers # {}

\* C8 (Spec): while the debugger is disabled, untrackBuffer and untrackImage
\* leave the tracked tables as they were.
C8_UntrackIsNoOpWhileDisabled ==
    [][(~m_enabled /\ lastCall'.op \in {"untrackBuffer", "untrackImage"})
          => UNCHANGED <<m_trackedBuffers, m_trackedImages>>]_vars

C10_NullBarrierIsOneError ==
    [][(/\ m_enabled
        /\ lastCall'.op \in {"validateBufferMemoryBarrier",
                             "validateImageMemoryBarrier"}
        /\ lastCall'.arg = NullHandle)
       => /\ lastCall'.ret = "false"
          /\ Len(m_errors') = Len(m_errors) + 1
          /\ SubSeq(m_errors', 1, Len(m_errors)) = m_errors
          /\ m_warnings' = m_warnings
      ]_vars

C10_Witness ==
    /\ m_enabled
    /\ lastCall.op = "validateBufferMemoryBarrier"
    /\ lastCall.arg = NullHandle
    /\ lastCall.ret = "false"
    /\ m_errors = <<"Buffer memory barrier has VK_NULL_HANDLE buffer">>
    /\ m_warnings = <<>>

\* What one call of a barrier validator appended to the two ledgers
AppendedWarnings == Len(m_warnings') - Len(m_warnings)
AppendedErrors == Len(m_errors') - Len(m_errors)
EmptyAccess(barrier) == barrier.srcAccessMask = 0 /\ barrier.dstAccessMask = 0

\* C11 (Spec): with the debugger enabled, a validate*Barrier call on a
\* barrier whose handle is not null (a memory barrier has none) returns true
\* and appends exactly one warning and no error when both access masks are
\* empty or the size field is zero (only a buffer barrier has one), and
\* appends no warning otherwise; this for each of the three kinds.
C11_BarrierWarnsOnEmptyOrZero ==
    [][m_enabled =>
        /\ \A b \in MemoryBarriers :
              ValidateMemoryBarrier(b) =>
                 /\ lastCall'.ret = "true"
                 /\ AppendedErrors = 0
                 /\ AppendedWarnings = IF EmptyAccess(b) THEN 1 ELSE 0
        /\ \A b \in BufferBarriers :
              (b.buffer # NullHandle /\ ValidateBufferMemoryBarrier(b)) =>
                 /\ lastCall'.ret = "true"
                 /\ AppendedErrors = 0
                 /\ AppendedWarnings =
                       IF EmptyAccess(b) \/ b.size = 0 THEN 1 ELSE 0
        /\ \A b \in ImageBarriers :
              (b.image # NullHandle /\ ValidateImageMemoryBarrier(b)) =>
                 /\ lastCall'.ret = "true"
                 /\ AppendedErrors = 0
                 /\ AppendedWarnings = IF EmptyAccess(b) THEN 1 ELSE 0
      ]_vars

\* the step recorded a dispatch
Dispatched(e) == Len(e.lastStep.groups) = 3

\* C12 (SpecGroups): on each axis the group count a step dispatches for a
\* dimension d >= 1 is ceil(d/8), the smallest g with 8*g >= d: every cell
\* is covered and no whole group is superfluous; 8 for d = 64, 13 for
\* d = 100.  (Checked for d up to MaxAxis, where d + 7 does not wrap.)
C12_GroupCountIsCeiling ==
    Dispatched(engine) =>
       \A axis \in 1..3 :
          LET d == engine.lastStep.pushConstants[axis]
              g == engine.lastStep.groups[axis]
          IN /\ d >= 1
             /\ 8 * g >= d
             /\ 8 * (g - 1) < d
             /\ d = 64 => g = 8
             /\ d = 100 => g = 13

C12_Witness ==
    /\ lastCall.op = "update"
    /\ engine.lastStep.pushConstants = <<1, 100, 1>>
    /\ engine.lastStep.groups = <<1, 13, 1>>

\* C13 (SpecEngine): with the debugger enabled, after a successful init and
\* n <= 1000 completed update() calls getStatistics reports n dispatches in
\* all and n for the simulation shader (1 and 1 after one step).
C13_EveryStepIsRecorded ==
    (m_enabled /\ Usable(engine) /\ steps <= HistoryCapacity) =>
       /\ getStatistics.totalDispatches = steps
       /\ \E name \in ShaderNames : DispatchCountOf(getStatistics, name) = steps

\* the size a handle is tracked with, 0 for a handle that is not tracked
TrackedSize(buffer) ==
    IF buffer \in DOMAIN m_trackedBuffers THEN m_trackedBuffers[buffer].size ELSE 0

\* C14 (SpecTrack): with the debugger enabled, totalBufferBytes of
\* getStatistics is the sum of the sizes of the buffers now tracked, each
\* handle once with the size of its latest trackBuffer: a trackBuffer(h, s)
\* moves the total by s minus the size h was tracked with, an
\* untrackBuffer(h) takes the size of h away (1024 and 2048 give 3072).
C14_TotalBufferBytesIsSumOfTracked ==
    [][m_enabled =>
        /\ getStatistics'.totalBufferBytes = TrackedSize("bufA")' + TrackedSize("bufB")'
        /\ \A h \in TrackedBufferHandles, s \in BufferSizes, n \in TrackedNames :
              TrackBuffer(h, s, n) =>
                 getStatistics'.totalBufferBytes =
                    getStatistics.totalBufferBytes - TrackedSize(h) + s
        /\ \A h \in TrackedBufferHandles :
              UntrackBuffer(h) =>
                 getStatistics'.totalBufferBytes =
                    getStatistics.totalBufferBytes - TrackedSize(h)
      ]_vars

C14_Witness ==
    /\ m_enabled
    /\ DOMAIN m_trackedBuffers = {"bufA", "bufB"}
    /\ m_trackedBuffers["bufA"].size = 1024
    /\ m_trackedBuffers["bufB"].size = 2048
    /\ getStatistics.totalBufferBytes = 3072
    /\ lastCall.op = "trackBuffer"

\* where in the last step's log a call was made (0: it was not made)
Position(e, call) ==
    IF \E i \in DOMAIN e.lastStep.events : e.lastStep.events[i].call = call
      THEN CHOOSE i \in DOMAIN e.lastStep.events : e.lastStep.events[i].call = call
      ELSE 0

Occurrences(e, call) ==
    Cardinality({i \in DOMAIN e.lastStep.events : e.lastStep.events[i].call = call})

\* an update() has run to its end on this engine
StepCompleted(e) == Len(e.lastStep.events) > 0 /\ ~e.terminated

\* C15 (SpecEngine): in every completed update() the descriptor set of the
\* current index is bound, then the dispatch is recorded, then the command
\* buffer is submitted, then the wait for the device is made and returns,
\* and only then the index flips; each happens once, and from the bind to
\* the return of the wait the current index is the one that was bound.
C15_StepOrder ==
    StepCompleted(engine) =>
       LET bind == Position(engine, "vkCmdBindDescriptorSets")
           dispatch == Position(engine, "vkCmdDispatch")
           submit == Position(engine, "vkQueueSubmit")
           wait == Position(engine, "vkQueueWaitIdle")
           flip == Position(engine, "swapBuffers")
           events == engine.lastStep.events
       IN /\ 0 < bind /\ bind < dispatch /\ dispatch < submit
          /\ submit < wait /\ wait < flip
          /\ \A call \in {"vkCmdBindDescriptorSets", "vkCmdDispatch",
                          "vkQueueSubmit", "vkQueueWaitIdle", "swapBuffers"} :
                Occurrences(engine, call) = 1
          /\ \A i \in bind..flip :
                events[i].currentBuffer = engine.lastStep.set
          /\ engine.currentBuffer = 1 - engine.lastStep.set

C15_Witness ==
    /\ lastCall.op = "update"
    /\ engine.lastStep.device = "ok"
    /\ steps = 2
    /\ engine.lastStep.set = 1
    /\ engine.currentBuffer = 0
    /\ Position(engine, "vkQueueWaitIdle") = 9
    /\ Position(engine, "swapBuffers") = 11

\* the device made a call of this step fail
DeviceFailed(e) == e.lastStep.device \in {"allocate", "allocateCrash", "submit", "wait"}

\* C16 (SpecEngine): an update() whose submission or wait for completion
\* failed leaves the current index as it was before that update().
C16_NoFlipAfterFailedStep ==
    [][(lastCall'.op = "update" /\ engine'.lastStep.device \in {"submit", "wait"})
          => engine'.currentBuffer = engine.currentBuffer]_vars

\* C17 (SpecEngine): an update() in which the command-buffer allocation,
\* the submission or the wait failed does not return normally: the caller
\* is given a failure.
C17_DeviceErrorIsSurfaced ==
    [][(lastCall'.op = "update" /\ DeviceFailed(engine'))
          => lastCall'.ret # "void"]_vars

\* C18 (SpecEngine): after a successful init, descriptor set i has binding 0
\* on buffer i and binding 1 on buffer 1 - i, two distinct buffers; update,
\* setCell and reset change neither set nor buffer; so the dispatch of every
\* update reads buffer[current] and writes buffer[1 - current].
C18_DescriptorSetsFixed ==
    [][/\ Usable(engine') =>
            /\ engine'.gridBuffers[1] # engine'.gridBuffers[2]
            /\ \A i \in {0, 1} :
                  /\ engine'.descriptorSets[i + 1].binding0
                        = engine'.gridBuffers[i + 1]
                  /\ engine'.descriptorSets[i + 1].binding1
                        = engine'.gridBuffers[(1 - i) + 1]
       /\ lastCall'.op \in {"update", "setCell", "reset"} =>
            /\ engine'.descriptorSets = engine.descriptorSets
            /\ engine'.gridBuffers = engine.gridBuffers
       /\ (lastCall'.op = "update" /\ StepCompleted(engine')) =>
            /\ engine'.lastStep.readBuffer
                  = engine.gridBuffers[engine.currentBuffer + 1]
            /\ engine'.lastStep.writeBuffer
                  = engine.gridBuffers[(1 - engine.currentBuffer) + 1]
            /\ engine'.lastStep.readBuffer # engine'.lastStep.writeBuffer
      ]_vars

C18_Witness ==
    /\ lastCall.op = "update"
    /\ StepCompleted(engine)
    /\ engine.lastStep.set = 1
    /\ engine.lastStep.readBuffer = "gridBuffer1"
    /\ engine.lastStep.writeBuffer = "gridBuffer0"
    /\ engine.descriptorSets[1] = [binding0 |-> "gridBuffer0", binding1 |-> "gridBuffer1"]

\* C19 (SpecTrack): with the debugger enabled, trackBuffer and trackImage on
\* a handle that is already tracked report nothing and add no entry: the
\* table has one entry for the handle, holding the size (or extent and
\* format) and the name of this call, and every other entry is as it was.
C19_TrackingTwiceOverwrites ==
    [][m_enabled =>
        /\ \A h \in TrackedBufferHandles, s \in BufferSizes, n \in TrackedNames :
              TrackBuffer(h, s, n) =>
                 /\ DOMAIN m_trackedBuffers' = DOMAIN m_trackedBuffers \cup {h}
                 /\ h \in DOMAIN m_trackedBuffers =>
                       Cardinality(DOMAIN m_trackedBuffers')
                          = Cardinality(DOMAIN m_trackedBuffers)
                 /\ m_trackedBuffers'[h] = [size |-> s, name |-> n]
                 /\ \A k \in DOMAIN m_trackedBuffers \ {h} :
                       m_trackedBuffers'[k] = m_trackedBuffers[k]
                 /\ UNCHANGED <<m_errors, m_warnings, m_trackedImages>>
        /\ \A h \in TrackedImageHandles, x \in TrackedExtents, f \in Formats,
              n \in TrackedNames :
              TrackImage(h, x, f, n) =>
                 /\ DOMAIN m_trackedImages' = DOMAIN m_trackedImages \cup {h}
                 /\ h \in DOMAIN m_trackedImages =>
                       Cardinality(DOMAIN m_trackedImages')
                          = Cardinality(DOMAIN m_trackedImages)
                 /\ m_trackedImages'[h] = [extent |-> x, format |-> f, name |-> n]
                 /\ \A k \in DOMAIN m_trackedImages \ {h} :
                       m_trackedImages'[k] = m_trackedImages[k]
                 /\ UNCHANGED <<m_errors, m_warnings, m_trackedBuffers>>
      ]_vars

\* bufA, tracked as 1024 bytes named "res", was tracked again as 2048 "grid"
C19_Witness ==
    /\ lastCall.op = "trackBuffer"
    /\ lastCall.replaced = <<[size |-> 1024, name |-> "res"]>>
    /\ DOMAIN m_trackedBuffers = {"bufA"}
    /\ m_trackedBuffers["bufA"] = [size |-> 2048, name |-> "grid"]
    /\ m_errors = <<>>

\* C20 (SpecDispatch): dispatches do not nest.  With the debugger enabled a
\* beginDispatch appends nothing, open dispatch or not, and leaves the
\* in-flight slot with its own shader name and group counts; an endDispatch
\* with a dispatch open appends one record, that of the latest beginDispatch,
\* and closes the slot, so that a further endDispatch appends nothing.
C20_DispatchesDoNotNest ==
    [][m_enabled =>
        /\ \A n \in DispatchNames, g \in DispatchGroups :
              BeginDispatch(n, g[1], g[2], g[3]) =>
                 /\ UNCHANGED <<m_dispatchHistory, closed>>
                 /\ m_inDispatch'
                 /\ m_currentDispatch'.shaderName = n
                 /\ <<m_currentDispatch'.groupCountX, m_currentDispatch'.groupCountY,
                      m_currentDispatch'.groupCountZ>> = g
        /\ lastCall'.op = "endDispatch" =>
              IF m_inDispatch
                THEN /\ Len(m_dispatchHistory') = Len(m_dispatchHistory) + 1
                     /\ SubSeq(m_dispatchHistory', 1, Len(m_dispatchHistory))
                           = m_dispatchHistory
                     /\ LET new == m_dispatchHistory'[Len(m_dispatchHistory')]
                        IN /\ new.shaderName = m_currentDispatch.shaderName
                           /\ new.groupCountX = m_currentDispatch.groupCountX
                           /\ new.groupCountY = m_currentDispatch.groupCountY
                           /\ new.groupCountZ = m_currentDispatch.groupCountZ
                     /\ ~m_inDispatch'
                ELSE UNCHANGED <<m_dispatchHistory, closed, m_inDispatch>>
      ]_vars

\* beginDispatch(game_of_life_3d, 1,1,1); beginDispatch(prefix_sum, 13,13,13);
\* endDispatch: one record, the second's
C20_Witness ==
    /\ lastCall.op = "endDispatch"
    /\ ~m_inDispatch
    /\ Len(m_dispatchHistory) = 1
    /\ m_dispatchHistory[1].shaderName = "prefix_sum"
    /\ m_dispatchHistory[1].groupCountX = 13
    /\ m_currentDispatch.shaderName = "prefix_sum"
    /\ m_currentDispatch.overwrote = <<"game_of_life_3d">>

\* C21 (SpecTimestamps): the i-th accepted request gets index i - 1 and one
\* marker, in request order; the next index is never above 1000 and no
\* operation lowers it; with 1000 requests accepted an insertTimestamp
\* writes no timestamp, adds no marker, logs nothing and leaves the index
\* at 1000.
C21_TimestampIndicesInOrder ==
    [][/\ m_currentTimestampIndex' <= TimestampCapacity
       /\ m_currentTimestampIndex' >= m_currentTimestampIndex
       /\ Len(m_timestampMarkers') = m_currentTimestampIndex'
       /\ \A i \in DOMAIN m_timestampMarkers' : m_timestampMarkers'[i][1] = i - 1
       /\ lastCall'.op = "insertTimestamp" =>
            IF m_enabled /\ m_currentTimestampIndex < TimestampCapacity
              THEN /\ lastCall'.arg = "written"
                   /\ m_currentTimestampIndex' = m_currentTimestampIndex + 1
                   /\ \E n \in MarkerNames :
                         m_timestampMarkers' =
                            Append(m_timestampMarkers, <<m_currentTimestampIndex, n>>)
              ELSE /\ lastCall'.arg = "dropped"
                   /\ UNCHANGED <<m_currentTimestampIndex, m_timestampMarkers,
                                  m_errors, m_warnings>>
      ]_vars

\* the 1001st request made of an enabled debugger was dropped
C21_Witness ==
    /\ m_enabled
    /\ lastCall.op = "insertTimestamp"
    /\ lastCall.arg = "dropped"
    /\ m_currentTimestampIndex = TimestampCapacity
    /\ Len(m_timestampMarkers) = TimestampCapacity
    /\ m_timestampMarkers[TimestampCapacity][1] = TimestampCapacity - 1
    /\ m_errors = <<>>

\* s is t or t with something appended
IsPrefix(s, t) == Len(s) <= Len(t) /\ SubSeq(t, 1, Len(s)) = s

ReportingOperations ==
    {"getStatistics", "dumpDebugInfo", "printResourceUsage", "printDispatchHistory"}

\* C23 (SpecReports): getStatistics, dumpDebugInfo (whether or not the file
\* could be opened), printResourceUsage and printDispatchHistory leave the
\* enabled flag, both tables, the history, the open dispatch and its flag,
\* the timestamp state and both ledgers as they were.
C23_ReportsChangeNothing ==
    [][lastCall'.op \in ReportingOperations =>
          UNCHANGED <<m_enabled, m_trackedBuffers, m_trackedImages,
                      m_dispatchHistory, m_currentDispatch, m_inDispatch,
                      m_timestampQueryPool, m_currentTimestampIndex,
                      m_timestampMarkers, m_errors, m_warnings>>
      ]_vars

\* a report was written to a file from a debugger with a tracked buffer, a
\* tracked image, a closed dispatch, a marker and a message
C23_Witness ==
    /\ lastCall.op = "dumpDebugInfo"
    /\ lastCall.arg = "written"
    /\ m_trackedBuffers # <<>>
    /\ m_trackedImages # <<>>
    /\ m_dispatchHistory # <<>>
    /\ m_timestampMarkers # <<>>
    /\ Len(m_errors) + Len(m_warnings) > 0

\* C24 (SpecEngine): an init that fails at a creation step throws, and on an
\* engine with no successful init behind it the host grid is left as it was
\* (not sized for the new dimensions), and an update() made while the last
\* init has failed records no dispatch and keeps the current index.
C24_FailedInitLeavesNothingUsable ==
    [][/\ (lastCall'.op = "init" /\ ~engine'.initialised) =>
             /\ lastCall'.ret = "throws"
             /\ ~engine.initialised => engine'.gridState = engine.gridState
       /\ (lastCall'.op = "update" /\ ~engine.initialised) =>
             /\ ~Dispatched(engine')
             /\ engine'.currentBuffer = engine.currentBuffer
      ]_vars

\* C25 (SpecLedgers): a constructor in which the timestamp query pool could
\* not be created throws, so a debugger without a query pool is never seen
\* except as the outcome of that throwing constructor; no operation is ever
\* applied to one.
C25_NoDebuggerWithoutQueryPool ==
    m_timestampQueryPool = NullHandle =>
        /\ lastCall.op = "ComputeShaderDebugger"
        /\ lastCall.ret = "throws"

\* C26 (SpecDevice): right after an update() that was submitted and waited
\* for, getGridState() is the content of the device buffer the current index
\* now names, which is the buffer that step wrote.
C26_GridStateIsTheComputedGeneration ==
    [][(lastCall'.op = "update" /\ engine'.lastStep.device = "ok") =>
          /\ BufferIndex(engine'.lastStep.writeBuffer) = engine'.currentBuffer + 1
          /\ getGridState(engine') = engine'.deviceMemory[engine'.currentBuffer + 1]
      ]_vars

\* C27 (SpecDevice): reset() sets every host cell to 0 and changes nothing
\* else: the host vector keeps its length, and the dimensions, the current
\* index, the buffer handles, the contents of the device buffers and the
\* descriptor sets are as before; a second reset() changes nothing at all.
C27_ResetZeroesTheHostGridOnly ==
    [][lastCall'.op = "reset" =>
          /\ Len(engine'.gridState) = Len(engine.gridState)
          /\ \A i \in DOMAIN engine'.gridState : engine'.gridState[i] = 0
          /\ [engine' EXCEPT !.gridState = engine.gridState] = engine
          /\ steps' = steps
          /\ reset(engine') = engine'
      ]_vars

\* reset() has just cleared two live cells after a step, on an engine whose
\* current index is 1 and whose device buffers hold live cells
C27_Witness ==
    /\ lastCall.op = "reset"
    /\ lastCall.arg = 2
    /\ engine.gridState = <<0, 0>>
    /\ engine.currentBuffer = 1
    /\ engine.deviceMemory = <<(<<1, 1>>), (<<1, 0>>)>>

\* C28 (SpecEngine): after every init(sx, sy, sz) that returns, a second
\* init on an engine whose cells were set included, the host grid has
\* exactly sx*sy*sz cells and every one of them is 0.
C28_InitZeroesTheHostGrid ==
    [][(lastCall'.op = "init" /\ lastCall'.ret = "void") =>
          /\ Len(engine'.gridState) =
                engine'.gridSizeX * engine'.gridSizeY * engine'.gridSizeZ
          /\ \A i \in DOMAIN engine'.gridState : engine'.gridState[i] = 0
      ]_vars

WritingAccessMasks == {a \in HazardAccessMasks : a >= VK_ACCESS_SHADER_WRITE_BIT}

\* C29 (SpecLedgers): on an enabled debugger checkSynchronizationHazards
\* appends exactly one warning iff both access masks include the shader-write
\* bit, and otherwise none; exactly one error iff the source or the
\* destination stage mask is 0, and otherwise none; it changes nothing else
\* and returns nothing.  The outcome depends on the four arguments only.
C29_HazardCheckOutcomes ==
    [][\A ss, ds \in StageMasks, sa, da \in HazardAccessMasks :
          (m_enabled /\ CheckSynchronizationHazards(ss, ds, sa, da)) =>
             /\ Len(m_warnings') - Len(m_warnings) =
                   (IF sa \in WritingAccessMasks /\ da \in WritingAccessMasks
                      THEN 1 ELSE 0)
             /\ Len(m_errors') - Len(m_errors) =
                   (IF ss = 0 \/ ds = 0 THEN 1 ELSE 0)
             /\ IsPrefix(m_warnings, m_warnings')
             /\ IsPrefix(m_errors, m_errors')
             /\ lastCall'.ret = "void"
             /\ UNCHANGED <<m_enabled, m_trackedBuffers, m_trackedImages,
                            m_dispatchHistory, m_currentDispatch, m_inDispatch,
                            m_timestampQueryPool, m_currentTimestampIndex,
                            m_timestampMarkers>>
      ]_vars

\* a check has just logged both: a write-after-write warning and an error
\* for a stage mask of 0
C29_Witness ==
    /\ m_enabled
    /\ lastCall.op = "checkSynchronizationHazards"
    /\ m_warnings = <<"Potential write-after-write hazard detected">>
    /\ m_errors = <<"Pipeline barrier has invalid stage flags">>

\* the retained records that carry this shader name
RecordsNamed(name) ==
    {i \in DOMAIN m_dispatchHistory : m_dispatchHistory[i].shaderName = name}

\* C30 (SpecCounts): what getStatistics returns has totalDispatches equal to
\* the length of the history (so at most 1000), dispatchCounts whose values
\* sum to totalDispatches, and for every shader name a count equal to the
\* number of retained records with that name (no entry for a name with
\* none); that is so whether the debugger is enabled or not.
C30_StatisticsCountTheHistory ==
    [][lastCall'.op = "getStatistics" =>
          LET stats == lastCall'.arg
          IN /\ stats.totalDispatches = Len(m_dispatchHistory)
             /\ stats.totalDispatches <= HistoryCapacity
             /\ SumOver(stats.dispatchCounts, DOMAIN stats.dispatchCounts)
                   = stats.totalDispatches
             /\ \A name \in DispatchNames :
                   /\ DispatchCountOf(stats, name) = Cardinality(RecordsNamed(name))
                   /\ name \in DOMAIN stats.dispatchCounts <=> RecordsNamed(name) # {}
             /\ DOMAIN stats.dispatchCounts \subseteq DispatchNames
      ]_vars

\* getStatistics, called on a disabled debugger, has just reported three
\* dispatches: two of one shader and one of the other
C30_Witness ==
    /\ ~m_enabled
    /\ lastCall.op = "getStatistics"
    /\ lastCall.arg.totalDispatches = 3
    /\ DispatchCountOf(lastCall.arg, "game_of_life_3d") = 2
    /\ DispatchCountOf(lastCall.arg, "prefix_sum") = 1

\* the last update() of this engine got as far as binding a descriptor set
Bound(e) == Position(e, "vkCmdBindDescriptorSets") > 0

\* C31 (SpecPingPong): of two consecutive steps of one initialisation, the
\* buffer bound at binding 1 (written) in the first is the buffer bound at
\* binding 0 (read) in the second, and the buffer read in the first is the
\* one written in the second; no step binds one buffer at both bindings.
C31_BuffersPingPong ==
    [][(lastCall'.op = "update" /\ Bound(engine')) =>
          /\ engine'.lastStep.readBuffer # engine'.lastStep.writeBuffer
          /\ Bound(engine) =>
                /\ engine'.lastStep.readBuffer = engine.lastStep.writeBuffer
                /\ engine'.lastStep.writeBuffer = engine.lastStep.readBuffer
      ]_vars

\* the third step of a run has read gridBuffers[0], which the second wrote
C31_Witness ==
    /\ lastCall.op = "update"
    /\ steps = 3
    /\ engine.lastStep.device = "ok"
    /\ engine.lastStep.readBuffer = "gridBuffer0"
    /\ engine.lastStep.writeBuffer = "gridBuffer1"
    /\ engine.currentBuffer = 1

\* C32 (SpecMirror): update() leaves the host grid as it was; setCell and
\* reset leave the contents of both device buffers and the current index as
\* they were; and so getGridState() is at all times what it is on an engine
\* that got the same init, setCell and reset calls and no step at all.
C32_HostAndDeviceNeverExchange ==
    [][/\ lastCall'.op = "update" => engine'.gridState = engine.gridState
       /\ lastCall'.op \in {"setCell", "reset"} =>
             /\ engine'.deviceMemory = engine.deviceMemory
             /\ engine'.currentBuffer = engine.currentBuffer
       /\ getGridState(engine') = getGridState(twin')
      ]_vars

\* after two steps that wrote live cells to both device buffers, a setCell
\* has made the host grid <<0, 1>>, as on the engine that never stepped
C32_Witness ==
    /\ lastCall.op = "setCell"
    /\ steps = 2
    /\ engine.lastStep.device = "ok"
    /\ engine.deviceMemory = <<(<<1, 1>>), (<<1, 0>>)>>
    /\ getGridState(engine) = <<0, 1>>
    /\ twin.lastStep = NoStep
    /\ twin.currentBuffer = 0

\* n is the product a * b * c of three uint32_t taken in the integers, for
\* an n below 2^31
IsProductOf(n, a, b, c) ==
    IF a = 0 \/ b = 0 \/ c = 0 THEN n = 0
    ELSE /\ a > 0 /\ b > 0 /\ c > 0
         /\ n % a = 0
         /\ (n \div a) % b = 0
         /\ (n \div a) \div b = c

\* C33 (SpecWide): for all 32-bit dimensions, those with a product of 2^32
\* or more included, the host grid after an init that returned has exactly
\* sizeX*sizeY*sizeZ cells, the product in the integers; and every setCell
\* that passes the bounds test writes inside the grid.
C33_GridSizedWithoutWraparound ==
    [][/\ (lastCall'.op = "init" /\ lastCall'.ret = "void") =>
             IsProductOf(Len(engine'.gridState), engine'.gridSizeX,
                         engine'.gridSizeY, engine'.gridSizeZ)
       /\ lastCall'.op = "setCell" => ~engine'.outOfRangeWrite
      ]_vars

\* ceil(d / 8) of a uint32_t d, in the integers
Ceil8(d) == Hi16(d) * 8192 + (Lo16(d) + 7) \div 8

\* C34 (SpecWide): on each axis the group count a step dispatches is
\* ceil(d / 8) for every 32-bit dimension d, those from 2^32 - 7 to 2^32 - 1
\* included: the groups cover the axis.
C34_GroupCountCoversEveryDimension ==
    Dispatched(engine) =>
       \A axis \in 1..3 :
          engine.lastStep.groups[axis] = Ceil8(engine.lastStep.pushConstants[axis])

\* C35 (SpecDispatch): the in-flight flag is set only by a beginDispatch made
\* while the debugger is enabled and cleared only by an endDispatch made while
\* it is enabled; setEnabled never changes it.  A beginDispatch made while
\* disabled opens nothing and an endDispatch made while disabled is ignored,
\* so a dispatch opened while enabled stays open across a disable and is
\* appended by the first endDispatch after re-enabling.  Every record
\* appended uses up an enabled beginDispatch: the records ever appended never
\* outnumber the beginDispatch calls made while enabled.
C35_FlagFollowsEnabledCallsOnly ==
    [][/\ (m_inDispatch' /\ ~m_inDispatch) =>
             (lastCall'.op = "beginDispatch" /\ m_enabled)
       /\ (m_inDispatch /\ ~m_inDispatch') =>
             (lastCall'.op = "endDispatch" /\ m_enabled)
       /\ lastCall'.op = "setEnabled" => UNCHANGED m_inDispatch
       /\ (lastCall'.op = "beginDispatch" /\ ~m_enabled) =>
             UNCHANGED <<m_inDispatch, m_currentDispatch>>
       /\ (lastCall'.op = "endDispatch" /\ ~m_enabled) =>
             UNCHANGED <<m_inDispatch, m_dispatchHistory, closed>>
       /\ (lastCall'.op = "endDispatch" /\ m_enabled /\ m_inDispatch) =>
             (closed' = closed + 1 /\ ~m_inDispatch')
       /\ closed' # closed => (closed' = closed + 1 /\ m_inDispatch)
       /\ m_currentDispatch'.unclosed >= 0
      ]_vars

\* beginDispatch while enabled, setEnabled(false), endDispatch: the call is
\* ignored and the dispatch is still open
C35_Witness ==
    /\ lastCall.op = "endDispatch"
    /\ ~m_enabled
    /\ m_inDispatch
    /\ m_currentDispatch.unclosed = 1
    /\ closed = 0

\* C36 (Spec): every record of the dispatch history has an empty buffer list
\* and an empty image list, and so has the in-flight slot: beginDispatch
\* clears both lists and no operation, trackBuffer and trackImage included,
\* adds a handle to them.
C36_RecordsListNoResources ==
    /\ m_currentDispatch.buffers = <<>>
    /\ m_currentDispatch.images = <<>>
    /\ \A i \in 1..Len(m_dispatchHistory) :
          /\ m_dispatchHistory[i].buffers = <<>>
          /\ m_dispatchHistory[i].images = <<>>

\* a dispatch was closed with a buffer and an image tracked
C36_Witness ==
    /\ lastCall.op = "endDispatch"
    /\ Len(m_dispatchHistory) = 1
    /\ m_dispatchHistory[1].shaderName # ""
    /\ DOMAIN m_trackedBuffers # {}
    /\ DOMAIN m_trackedImages # {}

\* C37 (SpecLedgers): with a null query pool handle insertTimestamp issues no
\* device timestamp write and records no marker: the markers and the
\* timestamp index are as they were before the call.
C37_NoTimestampWithoutQueryPool ==
    [][(lastCall'.op = "insertTimestamp" /\ m_timestampQueryPool = NullHandle) =>
          /\ lastCall'.arg = "dropped"
          /\ UNCHANGED <<m_timestampMarkers, m_currentTimestampIndex>>
      ]_vars

(***************************************************************************)
(* SpecGame: frames of the UX test game, of 0.5 s and of 2 s, up to        *)
(* MaxGameTime half seconds on the game clock                              *)
(***************************************************************************)
MaxGameTime == 17

\* frames of 0.5 s and of 2 s while playing; elsewhere the frame time only
\* advances the clock, and the frames are of 2 s
ElapsedTimes(currentState) == IF currentState = "PLAYING" THEN {1, 4} ELSE {4}

Key(pressed, held) == [pressed |-> pressed, held |-> held]

\* The keyboards of a frame, by the keys the state of the game reads; a key
\* that goes down in a frame is down in it.
Keyboards(currentState) ==
    CASE currentState = "MENU" ->
           {Key({}, {}), Key({"UP"}, {"UP"}), Key({"DOWN"}, {"DOWN"}),
            Key({"ENTER"}, {"ENTER"}), Key({"DOWN", "ENTER"}, {"DOWN", "ENTER"})}
      [] currentState = "PLAYING" ->
           {Key({}, {}), Key({}, {"W"}), Key({}, {"S"}),
            Key({"ESCAPE"}, {"ESCAPE"})}
      [] currentState = "SETTINGS" -> {Key({}, {}), Key({"ESCAPE"}, {"ESCAPE"})}
      [] OTHER ->
           {Key({}, {}), Key({"ENTER"}, {"ENTER"}), Key({"SPACE"}, {"SPACE"}),
            Key({"ENTER", "SPACE"}, {"ENTER", "SPACE"})}

\* on Start Game; on Settings; on Exit and on Easy; on Back
MousePoints == {<<180, 135>>, <<60, 190>>, <<60, 230>>, <<60, 290>>}

NoClick == [pressed |-> FALSE, x |-> 0, y |-> 0]

\* the mouse is read in the menu and in the settings
Mice(currentState) ==
    IF currentState \in {"MENU", "SETTINGS"}
      THEN {NoClick} \cup {[pressed |-> TRUE, x |-> p[1], y |-> p[2]] : p \in MousePoints}
      ELSE {NoClick}

\* the column of the player and a column far from it; the random engine is
\* asked only when an enemy is spawned
SpawnXs(g, fElapsedTime) ==
    IF g.currentState = "PLAYING" /\ (g.gameTime + fElapsedTime) % 4 < fElapsedTime
      THEN {50, 300} ELSE {50}

\* the game clock grows with every frame; a frame takes place if it leaves
\* the clock within MaxGameTime
GameNext ==
    \E fElapsedTime \in ElapsedTimes(game.currentState), keys \in Keyboards(game.currentState),
       mouse \in Mice(game.currentState) :
       \E spawnX \in SpawnXs(game, fElapsedTime) :
          /\ OnUserUpdate(fElapsedTime, keys, mouse, spawnX)
          /\ game'.gameTime <= MaxGameTime

SpecGame == Init /\ [][GameNext]_vars

GameStates == {"MENU", "PLAYING", "SETTINGS", "GAME_OVER"}

\* C38 (SpecGame): after every frame lives is one of 0..3, and at least 1
\* while the state is PLAYING; every frame that ends in PLAYING and did not
\* begin there leaves lives = 3 and score = 0; a frame that takes the last
\* life ends in GAME_OVER with lives = 0, the collisions after that one not
\* processed.
C38_LivesAndStateAgree ==
    [][/\ game'.lives \in 0..3
       /\ game'.currentState \in GameStates
       /\ game'.currentState = "PLAYING" => game'.lives >= 1
       /\ (game.currentState # "PLAYING" /\ game'.currentState = "PLAYING") =>
             (game'.lives = 3 /\ game'.score = 0)
       /\ (game.currentState = "PLAYING" /\ game'.lives = 0) =>
             game'.currentState = "GAME_OVER"
       /\ (game.currentState = "PLAYING" /\ game'.lives < game.lives) =>
             Len(game'.enemies) + (game.lives - game'.lives)
                <= Len(game.enemies) + 1
      ]_vars

\* the game is over with an enemy left within reach of the player: the loop
\* stopped at the collision which took the last life
C38_Witness ==
    /\ game.currentState = "GAME_OVER"
    /\ game.lives = 0
    /\ \E i \in 1..Len(game.enemies) : Touches(game.enemies[i], game)

\* the game is over with points scored: the next game resets a score
C38_ScoreWitness ==
    /\ game.currentState = "GAME_OVER"
    /\ game.score > 0

\* C39 (SpecGame): a frame in MENU in which Exit is chosen, by ENTER with
\* item 2 selected or by a click on the Exit button, makes OnUserUpdate
\* return false.
C39_ExitReturnsFalse ==
    [][\A fElapsedTime \in ElapsedTimes("MENU"), keys \in Keyboards("MENU"),
          mouse \in Mice("MENU") :
          (/\ game.currentState = "MENU"
           /\ MenuFrame(game, keys, mouse).left
           /\ OnUserUpdate(fElapsedTime, keys, mouse, 50))
             => game'.returned = FALSE
      ]_vars

====
